---- MODULE Spec2Model ----
(***************************************************************************)
(* Model of the legacy -> v0 configuration upgrade of the dist plugin      *)
(* (distgo/config/internal/legacy/legacy.go).                              *)
(*                                                                         *)
(* Text (scripts) is a sequence of tokens.  A token is either one          *)
(* character ("$", "{", "D", "\n", ...) or a chunk: a piece of literal     *)
(* text of the program that holds no newline and no occurrence, whole or   *)
(* partial at its edges, of the patterns the program searches for          *)
(* ("$DIST_DIR", "${DIST_DIR}", "IS_SNAPSHOT").  Concatenation, suffix     *)
(* tests, substring search and replacement are therefore exact on tokens.  *)
(* Text written by the user is made of characters only.                    *)
(*                                                                         *)
(* A Go pointer is a sequence of length at most one: <<>> is nil and       *)
(* <<v>> points to v.  Go's zero values are "" and <<>>.                   *)
(***************************************************************************)
EXTENDS Integers, Sequences, FiniteSets, TLC

VARIABLES
    cfgBytes,       \* the configuration document given to UpgradeConfig
    factories,      \* the dister, docker builder and publisher factories given to it
    legacyCfg,      \* the decoded legacy Project (nil before the decode)
    pc,             \* the position of UpgradeConfig in its code
    idx,            \* index into sortedProductsKeys of the product being upgraded
    legacyProduct,  \* the loop's copy of the legacy product
    product,        \* the v0 product under construction
    upgradedCfg,    \* the v0 project under construction
    calls,          \* the lookups and UpgradeConfig calls made on the factories so far
    result,         \* what UpgradeConfig returned
    text,           \* script rewrite: the text given to translateEnvVars
    out,            \* script rewrite: the text after the rewrites applied so far
    applied,        \* script rewrite: how many times the rewrite was applied
    configFile,     \* file upgrade: the bytes of the plugin's configuration file
    stdout,         \* file upgrade: the lines printed so far
    runs            \* file upgrade: how many times the upgrade was run

engineVars ==
    <<cfgBytes, factories, legacyCfg, pc, idx, legacyProduct, product, upgradedCfg,
      calls, result>>
scriptVars == <<text, out, applied>>
fileVars == <<configFile, stdout, runs>>
vars == <<engineVars, scriptVars, fileVars>>

----------------------------------------------------------------------------
(* Bounds of the model *)

\* pieces a user text is made of
MaxPieces == 4
\* successive applications of the rewrite
MaxApply == 2
\* successive runs of the upgrade on a configuration file
MaxRuns == 2
\* keys of a tag-templates map
MaxTagKeys == 3
\* product identifiers a configuration may use
NumIDs == 3
\* products of a configuration
MaxProducts == 2
\* entries of a list of dists
MaxDists == 2
\* dependencies of a Docker image
MaxDeps == 3
\* Docker images of a product
MaxImages == 2

----------------------------------------------------------------------------
(* Text *)

NL == "\n"

DIST_DIR == <<"D", "I", "S", "T", "_", "D", "I", "R">>
DIST_WORK_DIR == <<"D", "I", "S", "T", "_", "W", "O", "R", "K", "_", "D", "I", "R">>
IS_SNAPSHOT == <<"I", "S", "_", "S", "N", "A", "P", "S", "H", "O", "T">>

\* the characters of a shell variable name that occur in the model's texts
IdentChars ==
    {"D", "I", "S", "T", "_", "R", "W", "O", "K", "N", "A", "P", "H", "X"}

\* s holds p at position i
HasPrefixAt(s, i, p) ==
    /\ i + Len(p) - 1 <= Len(s)
    /\ SubSeq(s, i, i + Len(p) - 1) = p

\* strings.Contains
Contains(s, p) == \E i \in 1..Len(s) : HasPrefixAt(s, i, p)

\* strings.HasSuffix
HasSuffix(s, p) ==
    /\ Len(p) <= Len(s)
    /\ SubSeq(s, Len(s) - Len(p) + 1, Len(s)) = p

\* the text from position i on, with the leftmost occurrence of old at or after i
\* replaced and then the occurrences after it
RECURSIVE ReplaceFrom(_, _, _, _)
ReplaceFrom(s, i, old, new) ==
    LET hits == { j \in i..Len(s) : HasPrefixAt(s, j, old) }
    IN  IF hits = {} THEN SubSeq(s, i, Len(s))
        ELSE LET first == CHOOSE j \in hits : \A h \in hits : j <= h
             IN  SubSeq(s, i, first - 1) \o new
                     \o ReplaceFrom(s, first + Len(old), old, new)

\* strings.Replace(s, old, new, -1): every non-overlapping occurrence, leftmost first
Replace(s, old, new) == ReplaceFrom(s, 1, old, new)

translateVar(in, oldVar, newVar) ==
    LET out1 == Replace(in, <<"$">> \o oldVar, <<"$">> \o newVar)
    IN  Replace(out1, <<"$", "{">> \o oldVar \o <<"}">>,
                      <<"$", "{">> \o newVar \o <<"}">>)

isSnapshotScript ==
    <<"### START: auto-generated back-compat code for \"">> \o IS_SNAPSHOT
        \o <<"\" variable ###", NL>>
    \o IS_SNAPSHOT \o <<"=", "0", NL>>
    \o <<"if [[ ", "$", "VERSION =~ .+g[-+.]?[a-fA-F0-9]{3,}", "$", " ]]; then ">>
        \o IS_SNAPSHOT \o <<"=", "1", "; fi", NL>>
    \o <<"### END: auto-generated back-compat code for \"">> \o IS_SNAPSHOT
        \o <<"\" variable ###", NL>>

translateEnvVars(in) ==
    LET out0 == IF Contains(in, IS_SNAPSHOT) THEN isSnapshotScript \o in ELSE in
    IN  translateVar(out0, DIST_DIR, DIST_WORK_DIR)

----------------------------------------------------------------------------
(* Values *)

\* a nil pointer, an empty slice, an empty map, no bytes
Nil == <<>>
Ptr(v) == <<v>>

stringPtr(in) == <<in>>

\* PtrIfSet with a fault: an empty value is set too
PtrAlways(s) == <<s>>

\* the idiom `if s != "" { x = stringPtr(s) }` on a nil x
PtrIfSet(s) == IF s # "" THEN stringPtr(s) ELSE Nil

\* product identifiers, in the order sort.Strings gives them
IDNames == <<"a", "b", "c", "d", "e">>
ProductIDs == { IDNames[n] : n \in 1..NumIDs }
Rank(k) == CHOOSE n \in 1..Len(IDNames) : IDNames[n] = k

\* SortedKeys with a fault: the keys in descending order
SortedKeysDescending(keys) ==
    LET ascending == SelectSeq(IDNames, LAMBDA k : k \in keys)
    IN  [n \in 1..Len(ascending) |-> ascending[Len(ascending) + 1 - n]]

\* sort.Strings of the keys of a map
SortedKeys(keys) == SelectSeq(IDNames, LAMBDA k : k \in keys)

\* yaml.Marshal of a value: the bytes that decode to it
Marshal(v) == [yaml |-> v]

\* what UpgradeConfig returns: ([]byte, error), or the abnormal end of the call
NoResult == [kind |-> "none", reason |-> "", product |-> "", detail |-> "", bytes |-> Nil]
Err(reason, k, detail) ==
    [kind |-> "error", reason |-> reason, product |-> k, detail |-> detail, bytes |-> Nil]
Panic(k) ==
    [kind |-> "panic", reason |-> "nil pointer dereference", product |-> k,
     detail |-> "", bytes |-> Nil]
Unchanged == [kind |-> "unchanged", reason |-> "", product |-> "", detail |-> "", bytes |-> Nil]
Bytes(b) == [kind |-> "bytes", reason |-> "", product |-> "", detail |-> "", bytes |-> Ptr(b)]

----------------------------------------------------------------------------
(* The legacy schema *)

SLSDistType == "sls"
BinDistType == "bin"
RPMDistType == "rpm"
OSArchBinDistType == "os-arch-bin"
ManualDistType == "manual"

\* the yaml keys of the structs a dist-type's info decodes into
BinDistKeys == {"legacy-config", "omit-init-sh", "init-sh-template-file"}
ManualDistKeys == {"legacy-config", "extension"}
OSArchBinDistKeys == {"legacy-config", "os-archs"}
SLSDistKeys ==
    {"legacy-config", "init-sh-template-file", "manifest-template-file", "service-args",
     "product-type", "manifest-extensions", "reloadable", "yml-validation-exclude"}
RPMDistKeys ==
    {"legacy-config", "release", "config-files", "before-install-script",
     "after-install-script", "after-remove-script"}
SLSDockerImageInfoKeys ==
    {"legacy-config", "group-id", "product-type", "manifest-extensions"}

\* a decoded struct: its type and the fields that are not zero
Struct(name, fields) == [struct |-> name, fields |-> fields]
\* an info that was not decoded into a struct (interface{} holding the raw node)
RawInfo(node) == [struct |-> "", fields |-> node]

Field(v, key, zero) == IF key \in DOMAIN v.fields THEN v.fields[key] ELSE zero
\* WithLegacy with a fault: the legacy marker is not set
WithLegacyUnset(v) == v

\* `x.Legacy = true`
WithLegacy(v) == [v EXCEPT !.fields = ("legacy-config" :> TRUE) @@ v.fields]

\* BinDist.OmitInitSh, a *bool
OmitInitSh(binDist) ==
    IF "omit-init-sh" \in DOMAIN binDist.fields
    THEN Ptr(binDist.fields["omit-init-sh"]) ELSE Nil
InitShTemplateFile(binDist) == Field(binDist, "init-sh-template-file", "")

DefaultBuild ==
    [Skip |-> FALSE, Script |-> "", MainPkg |-> "", OutputDir |-> "",
     BuildArgsScript |-> "", VersionVar |-> "", Environment |-> Nil, OSArchs |-> Nil]
DefaultRun == [Args |-> Nil]
DefaultAlmanac == [Legacy |-> FALSE, Metadata |-> Nil, Tags |-> Nil]
DefaultPublish == [GroupID |-> "", Almanac |-> DefaultAlmanac]
DefaultDistInfo == [Type |-> "", Info |-> Nil]
DefaultDist ==
    [OutputDir |-> "", InputDir |-> "", InputProducts |-> Nil, Script |-> Nil,
     DistType |-> DefaultDistInfo, Publish |-> DefaultPublish]
DefaultDockerImageInfo == [Type |-> "", Data |-> Nil]
DefaultDockerImage ==
    [Repository |-> "", Tag |-> "", ContextDir |-> "", Deps |-> Nil,
     Info |-> DefaultDockerImageInfo, BuildArgsScript |-> Nil]
\* the `dist` node of a product in the document
AbsentDist == [shape |-> "absent", items |-> Nil]
DefaultProduct ==
    [Build |-> DefaultBuild, Run |-> DefaultRun, Dist |-> AbsentDist,
     DockerImages |-> Nil, DefaultPublish |-> DefaultPublish]
DefaultProject ==
    [unknownKey |-> FALSE, Products |-> Nil, BuildOutputDir |-> "", DistOutputDir |-> "",
     DistScriptInclude |-> Nil, GroupID |-> "", Exclude |-> Nil]

----------------------------------------------------------------------------
(* Decoding *)

\* DistInfo.UnmarshalYAML: the info is decoded again, strictly, into the struct its
\* type names; an info under any other type stays as it was read
DistInfoUnmarshalYAML(node) ==
    LET typed(name, keys) ==
            IF DOMAIN node.Info \subseteq keys
            THEN [err |-> FALSE, value |-> [Type |-> node.Type, Info |-> Struct(name, node.Info)]]
            ELSE [err |-> TRUE, value |-> DefaultDistInfo]
    IN  CASE node.Type = SLSDistType -> typed("SLSDist", SLSDistKeys)
          [] node.Type = BinDistType -> typed("BinDist", BinDistKeys)
          [] node.Type = ManualDistType -> typed("ManualDist", ManualDistKeys)
          [] node.Type = OSArchBinDistType -> typed("OSArchBinDist", OSArchBinDistKeys)
          [] node.Type = RPMDistType -> typed("RPMDist", RPMDistKeys)
          [] OTHER -> [err |-> FALSE,
                       value |-> [Type |-> node.Type, Info |-> RawInfo(node.Info)]]

\* a Dist node decodes when its dist-type does
DistUnmarshal(node) ==
    LET info == DistInfoUnmarshalYAML(node.DistType)
    IN  [err |-> info.err, value |-> [node EXCEPT !.DistType = info.value]]

\* the entries of a dist node, decoded, and the error of the first that fails
DistEntries(node) == [n \in 1..Len(node.items) |-> DistUnmarshal(node.items[n])]
DistEntriesErr(node) ==
    IF \E n \in 1..Len(node.items) : DistEntries(node)[n].err
    THEN "field not found in the type of the dist info" ELSE ""

\* `unmarshal(&multiple)`: the node decoded as []Dist
UnmarshalMultiple(node) ==
    IF node.shape = "list"
    THEN [err |-> DistEntriesErr(node),
          value |-> [n \in 1..Len(node.items) |-> DistEntries(node)[n].value]]
    ELSE [err |-> "cannot unmarshal into []legacy.Dist", value |-> Nil]

\* `unmarshal(&single)`: the node decoded as Dist
UnmarshalSingle(node) ==
    IF node.shape = "object"
    THEN [err |-> DistEntriesErr(node), value |-> DistEntries(node)[1].value]
    ELSE [err |-> "cannot unmarshal into legacy.Dist", value |-> DefaultDist]

\* RawDistConfigs.UnmarshalYAML with a fault: when neither attempt works, the
\* error of the list attempt is the one returned
RawDistConfigsListError(node) ==
    IF UnmarshalMultiple(node).err = ""
    THEN IF Len(UnmarshalMultiple(node).value) = 0
         THEN [err |-> "there must be at least one dist", value |-> Nil]
         ELSE [err |-> "", value |-> UnmarshalMultiple(node).value]
    ELSE IF UnmarshalSingle(node).err # ""
         THEN [err |-> UnmarshalMultiple(node).err, value |-> Nil]
         ELSE [err |-> "", value |-> <<UnmarshalSingle(node).value>>]

\* RawDistConfigs.UnmarshalYAML: a list of Dist, or else a single Dist
RawDistConfigsUnmarshalYAML(node) ==
    LET multiple == UnmarshalMultiple(node)
        single == UnmarshalSingle(node)
    IN  IF multiple.err = ""
        THEN IF Len(multiple.value) = 0
             THEN [err |-> "there must be at least one dist", value |-> Nil]
             ELSE [err |-> "", value |-> multiple.value]
        ELSE IF single.err # ""
             THEN [err |-> single.err, value |-> Nil]
             ELSE [err |-> "", value |-> <<single.value>>]

\* DockerImageInfo.UnmarshalYAML
DockerImageInfoUnmarshalYAML(node) ==
    IF node.Type = "sls"
    THEN IF DOMAIN node.Data \subseteq SLSDockerImageInfoKeys
         THEN [err |-> FALSE,
               value |-> [Type |-> node.Type, Data |-> Struct("SLSDockerImageInfo", node.Data)]]
         ELSE [err |-> TRUE, value |-> DefaultDockerImageInfo]
    ELSE [err |-> FALSE, value |-> [Type |-> node.Type, Data |-> RawInfo(node.Data)]]

\* a product of the document decodes when its dist node and its docker images do
ProductUnmarshal(node) ==
    LET dist == IF node.Dist.shape = "absent"
                THEN [err |-> "", value |-> Nil]
                ELSE RawDistConfigsUnmarshalYAML(node.Dist)
        infos == [n \in 1..Len(node.DockerImages) |->
                     DockerImageInfoUnmarshalYAML(node.DockerImages[n].Info)]
    IN  [err |-> IF dist.err # "" THEN dist.err
                 ELSE IF \E n \in 1..Len(infos) : infos[n].err
                      THEN "cannot unmarshal into legacy.SLSDockerImageInfo"
                      ELSE "",
         value |-> [node EXCEPT
                       !.Dist = dist.value,
                       !.DockerImages =
                           [n \in 1..Len(infos) |->
                               [node.DockerImages[n] EXCEPT !.Info = infos[n].value]]]]

\* UnmarshalStrict with a fault: a key that the Project type does not define is
\* ignored
UnmarshalLenient(bytes) ==
    LET decoded == [k \in DOMAIN bytes.Products |-> ProductUnmarshal(bytes.Products[k])]
        bad == { k \in DOMAIN decoded : decoded[k].err # "" }
    IN  IF bad # {}
        THEN [err |-> decoded[(CHOOSE k \in bad : \A q \in bad : Rank(k) <= Rank(q))].err,
              value |-> Nil]
        ELSE [err |-> "",
              value |-> Ptr([Products |-> [k \in DOMAIN decoded |-> decoded[k].value],
                             BuildOutputDir |-> bytes.BuildOutputDir,
                             DistOutputDir |-> bytes.DistOutputDir,
                             DistScriptInclude |-> bytes.DistScriptInclude,
                             GroupID |-> bytes.GroupID,
                             Exclude |-> bytes.Exclude])]

\* yaml.UnmarshalStrict(cfgBytes, &legacyCfg)
UnmarshalStrict(bytes) ==
    LET decoded == [k \in DOMAIN bytes.Products |-> ProductUnmarshal(bytes.Products[k])]
        bad == { k \in DOMAIN decoded : decoded[k].err # "" }
    IN  IF bytes.unknownKey
        THEN [err |-> "field not found in type legacy.Project", value |-> Nil]
        ELSE IF bad # {}
             THEN [err |-> decoded[SortedKeys(bad)[1]].err, value |-> Nil]
             ELSE [err |-> "",
                   value |-> Ptr([Products |-> [k \in DOMAIN decoded |-> decoded[k].value],
                                  BuildOutputDir |-> bytes.BuildOutputDir,
                                  DistOutputDir |-> bytes.DistOutputDir,
                                  DistScriptInclude |-> bytes.DistScriptInclude,
                                  GroupID |-> bytes.GroupID,
                                  Exclude |-> bytes.Exclude])]

----------------------------------------------------------------------------
(* The factories: a factory maps each type name it knows to the behaviour of  *)
(* that type's ConfigUpgrader: "ok" (it returns the upgraded configuration),  *)
(* "error" (UpgradeConfig returns an error) or "scalar" (it returns bytes     *)
(* that are no yaml mapping).                                                 *)

UpgraderBehaviours == {"ok", "error", "scalar"}

\* the bytes a plugin's UpgradeConfig returns for the bytes it was given
UpgradedBytes(category, typeName, oldBytes) ==
    [upgradedBy |-> <<category, typeName>>, from |-> oldBytes]

\* an event of the calls made on the factories
Lookup(category, typeName, k) ==
    [op |-> "ConfigUpgrader", category |-> category, type |-> typeName, product |-> k,
     bytes |-> Nil]
Upgrade(category, typeName, k, oldBytes) ==
    [op |-> "UpgradeConfig", category |-> category, type |-> typeName, product |-> k,
     bytes |-> Ptr(oldBytes)]

\* DelegateUpgrade with a fault: the errors of the lookup and of the upgrader are
\* swallowed and the configuration is left out
DelegateUpgradeSwallowing(category, factory, typeName, k, oldBytes) ==
    [err |-> Nil,
     Config |-> IF typeName \in DOMAIN factory /\ factory[typeName] = "ok"
                THEN Ptr(UpgradedBytes(category, typeName, oldBytes)) ELSE Nil,
     calls |-> IF typeName \in DOMAIN factory
               THEN <<Lookup(category, typeName, k), Upgrade(category, typeName, k, oldBytes)>>
               ELSE <<Lookup(category, typeName, k)>>]

\* factory.ConfigUpgrader(typeName), upgrader.UpgradeConfig(bytes) and the decoding
\* of what it returned as a yaml.MapSlice
DelegateUpgrade(category, factory, typeName, k, oldBytes) ==
    IF typeName \notin DOMAIN factory
    THEN [err |-> Ptr(Err("no upgrader found", k, category)),
          Config |-> Nil,
          calls |-> <<Lookup(category, typeName, k)>>]
    ELSE LET made == <<Lookup(category, typeName, k),
                       Upgrade(category, typeName, k, oldBytes)>>
         IN  CASE factory[typeName] = "error" ->
                    [err |-> Ptr(Err("failed to upgrade legacy configuration", k, category)),
                     Config |-> Nil, calls |-> made]
               [] factory[typeName] = "scalar" ->
                    [err |-> Ptr(Err("failed to unmarshal upgraded configuration", k, category)),
                     Config |-> Nil, calls |-> made]
               [] OTHER ->
                    [err |-> Nil,
                     Config |-> Ptr(UpgradedBytes(category, typeName, oldBytes)),
                     calls |-> made]

----------------------------------------------------------------------------
(* Scripts *)

\* appendToScript with a fault: the interpreter line is put in front at every append
appendToScriptPrepending(script, append) ==
    LET s2 == <<"#!/bin/bash", NL>> \o script \o append
    IN  IF ~ HasSuffix(s2, <<NL>>) THEN s2 \o <<NL>> ELSE s2

appendToScript(script, append) ==
    LET s1 == IF script = <<>> THEN <<"#!/bin/bash", NL>> ELSE script
        s2 == s1 \o append
    IN  IF ~ HasSuffix(s2, <<NL>>) THEN s2 \o <<NL>> ELSE s2

inputDirScriptContent(inputDir) ==
    <<"### START: auto-generated back-compat code for \"input-dir\" behavior ###", NL,
      "cp -r \"$PROJECT_DIR\"/", inputDir, "/. \"$DIST_WORK_DIR\"", NL,
      "find \"$DIST_WORK_DIR\" -type f -name .gitkeep -exec rm '{}' \\;", NL,
      "### END: auto-generated back-compat code for \"input-dir\" behavior ###">>

binDistInitShScript ==
    <<"### START: auto-generated back-compat code for \"omit-init-sh: false\" behavior for bin dist ###",
      NL, "read -d '' GODELUPGRADED_scriptContent <<\"EOF\"", NL, "#!/bin/bash", NL,
      "set -euo pipefail", NL, "BIN_DIR=\"$(cd \"$(dirname \"$0\")\" && pwd)\"", NL,
      "# determine OS", NL, "OS=\"\"", NL, "case \"$(uname)\" in", NL, "  Darwin*)",
      NL, "    OS=darwin", NL, "    ;;", NL, "  Linux*)", NL, "    OS=linux", NL,
      "    ;;", NL, "  *)", NL, "    echo \"Unsupported operating system: $(uname)\"",
      NL, "    exit 1", NL, "    ;;", NL, "esac", NL,
      "# determine executable location based on OS", NL,
      "CMD=$BIN_DIR/$OS-amd64/{{.ProductName}}", NL, "# verify that executable exists",
      NL, "if [ ! -e \"$CMD\" ]; then", NL,
      "    echo \"Executable $CMD does not exist\"", NL, "    exit 1", NL, "fi", NL,
      "# invoke appropriate executable", NL, "$CMD \"$@\"", NL, "EOF", NL,
      "GODELUPGRADED_templated=${GODELUPGRADED_scriptContent//\\{\\{.ProductName\\}\\}/$PRODUCT}",
      NL, "echo \"$GODELUPGRADED_templated\" > \"$DIST_WORK_DIR\"/bin/\"$PRODUCT\".sh",
      NL, "chmod 755 \"$DIST_WORK_DIR\"/bin/\"$PRODUCT\".sh", NL,
      "### END: auto-generated back-compat code for \"omit-init-sh: false\" behavior for bin dist ###">>

\* AppendToScriptPtr with a fault: the fragment is put in front of the fragments
\* the script already has
AppendToScriptPtrInFront(scriptPtr, append) ==
    IF scriptPtr = Nil THEN Ptr(appendToScript(<<>>, append))
    ELSE Ptr(appendToScript(<<>>, append) \o SubSeq(scriptPtr[1], 3, Len(scriptPtr[1])))

\* `if cfg.Script == nil { cfg.Script = stringPtr("") }` and the append that follows
AppendToScriptPtr(scriptPtr, append) ==
    Ptr(appendToScript(IF scriptPtr = Nil THEN <<>> ELSE scriptPtr[1], append))

----------------------------------------------------------------------------
(* The v0 schema *)

bin_TypeName == "bin"
osarchbin_TypeName == "os-arch-bin"
manual_TypeName == "manual"
defaultdockerbuilder_TypeName == "default"

NilBuildConfig ==
    [MainPkg |-> Nil, OutputDir |-> Nil, BuildArgsScript |-> Nil, VersionVar |-> Nil,
     Environment |-> Nil, OSArchs |-> Nil]
NilDisterConfig == [Type |-> Nil, Script |-> Nil, Config |-> Nil]
NilDistConfig == [OutputDir |-> Nil, Disters |-> Nil]
NilPublishConfig == [GroupID |-> Nil, PublishInfo |-> Nil]
NilDockerBuilderConfig ==
    [Type |-> Nil, Script |-> Nil, ContextDir |-> Nil, InputDists |-> Nil,
     TagTemplates |-> Nil, Config |-> Nil]
NilProductConfig ==
    [Build |-> Nil, Run |-> Nil, Dist |-> Nil, Docker |-> Nil, Publish |-> Nil,
     Dependencies |-> Nil]
NilProjectConfig ==
    [Products |-> Nil, ProductDefaults |-> NilProductConfig, ScriptIncludes |-> Nil,
     Exclude |-> Nil]

addDepIfNotPresent(deps, productID) ==
    LET productIDPresent == \E n \in 1..Len(deps) : deps[n] = productID
    IN  IF productIDPresent THEN deps ELSE Append(deps, productID)

----------------------------------------------------------------------------
(* upgradeLegacyConfig, section by section *)

\* the top-level configuration
UpgradeTopLevel(legacy) ==
    [Products |-> Nil,
     ProductDefaults |->
        [NilProductConfig EXCEPT
            !.Build = IF legacy.BuildOutputDir # ""
                      THEN Ptr([NilBuildConfig EXCEPT
                                   !.OutputDir = stringPtr(legacy.BuildOutputDir)])
                      ELSE Nil,
            !.Dist = IF legacy.DistOutputDir # ""
                     THEN Ptr([NilDistConfig EXCEPT
                                  !.OutputDir = stringPtr(legacy.DistOutputDir)])
                     ELSE Nil,
            !.Publish = IF legacy.GroupID # ""
                        THEN Ptr([NilPublishConfig EXCEPT
                                     !.GroupID = stringPtr(legacy.GroupID)])
                        ELSE Nil],
     ScriptIncludes |-> translateEnvVars(legacy.DistScriptInclude),
     Exclude |-> legacy.Exclude]

\* the build section of product k
UpgradeBuild(k, lp) ==
    IF ~ lp.Build.Skip
    THEN IF lp.Build.Script # ""
         THEN [err |-> Ptr(Err("build scripts are no longer supported", k, "")),
               Build |-> Nil]
         ELSE [err |-> Nil,
               Build |-> Ptr([MainPkg |-> PtrIfSet(lp.Build.MainPkg),
                              OutputDir |-> PtrIfSet(lp.Build.OutputDir),
                              BuildArgsScript |-> PtrIfSet(lp.Build.BuildArgsScript),
                              VersionVar |-> PtrIfSet(lp.Build.VersionVar),
                              Environment |-> IF Cardinality(DOMAIN lp.Build.Environment) > 0
                                              THEN Ptr(lp.Build.Environment) ELSE Nil,
                              OSArchs |-> IF Len(lp.Build.OSArchs) > 0
                                          THEN Ptr(lp.Build.OSArchs) ELSE Nil])]
    ELSE [err |-> Nil, Build |-> Nil]

\* the run section
UpgradeRun(lp) ==
    IF Len(lp.Run.Args) > 0 THEN Ptr([Args |-> Ptr(lp.Run.Args)]) ELSE Nil

\* the dist that stands for the legacy default of a product with OS/Archs and no dist
SynthesizedDist(osArchs) ==
    [DefaultDist EXCEPT
        !.DistType = [Type |-> OSArchBinDistType,
                      Info |-> Struct("OSArchBinDist",
                                      ("legacy-config" :> TRUE) @@ ("os-archs" :> osArchs))]]

\* `len(legacyProduct.Dist) == 0 && product.Build.OSArchs != nil && ...`: the second
\* operand dereferences product.Build, which is nil when the build is skipped
DefaultDistStep(lp, prod) ==
    IF Len(lp.Dist) # 0 THEN [panic |-> FALSE, legacyProduct |-> lp]
    ELSE IF prod.Build = Nil THEN [panic |-> TRUE, legacyProduct |-> lp]
    ELSE IF prod.Build[1].OSArchs # Nil /\ Len(prod.Build[1].OSArchs[1]) > 0
         THEN [panic |-> FALSE,
               legacyProduct |-> [lp EXCEPT !.Dist = <<SynthesizedDist(prod.Build[1].OSArchs[1])>>]]
         ELSE [panic |-> FALSE, legacyProduct |-> lp]

\* GeneratesInitSh with a fault: an absent omit-init-sh counts as false
GeneratesInitShUnlessOmitted(binDist) ==
    OmitInitSh(binDist) = Nil \/ OmitInitSh(binDist)[1] = FALSE

\* `binDist.OmitInitSh != nil && *binDist.OmitInitSh == false`
GeneratesInitSh(binDist) ==
    OmitInitSh(binDist) # Nil /\ OmitInitSh(binDist)[1] = FALSE

\* DisterSwitch with a fault: an entry of any type is delegated under that type
DisterSwitchDelegatingAll(k, legacyDist) ==
    [err |-> Nil,
     cfg |-> [NilDisterConfig EXCEPT !.Type = stringPtr(legacyDist.DistType.Type)],
     bytes |-> Ptr(Marshal(WithLegacy(legacyDist.DistType.Info)))]

\* DisterSwitch with a fault: a bin dist is delegated as the other types are
DisterSwitchBinDelegated(k, legacyDist) ==
    LET distType == legacyDist.DistType.Type
        delegated(typeName) ==
            [err |-> Nil,
             cfg |-> [NilDisterConfig EXCEPT !.Type = stringPtr(typeName)],
             bytes |-> Ptr(Marshal(WithLegacy(legacyDist.DistType.Info)))]
    IN  CASE distType = SLSDistType -> delegated("sls")
          [] distType = BinDistType -> delegated(bin_TypeName)
          [] distType = OSArchBinDistType -> delegated(osarchbin_TypeName)
          [] distType = ManualDistType -> delegated(manual_TypeName)
          [] distType = RPMDistType -> delegated("rpm")
          [] OTHER -> [err |-> Ptr(Err("unsupported dist type", k, distType)),
                       cfg |-> NilDisterConfig, bytes |-> Nil]

\* the switch on the legacy dist type: the v0 type name, the script generated for a
\* bin dist and the legacy bytes for the dister's upgrader
DisterSwitch(k, legacyDist) ==
    LET distType == legacyDist.DistType.Type
        info == legacyDist.DistType.Info
        delegated(typeName) ==
            [err |-> Nil,
             cfg |-> [NilDisterConfig EXCEPT !.Type = stringPtr(typeName)],
             bytes |-> Ptr(Marshal(WithLegacy(info)))]
    IN  CASE distType = SLSDistType -> delegated("sls")
          [] distType = BinDistType ->
                IF GeneratesInitSh(info)
                THEN IF InitShTemplateFile(info) # ""
                     THEN [err |-> Ptr(Err("custom init.sh template file is no longer supported",
                                           k, "")),
                           cfg |-> NilDisterConfig, bytes |-> Nil]
                     ELSE [err |-> Nil,
                           cfg |-> [NilDisterConfig EXCEPT
                                       !.Type = stringPtr(bin_TypeName),
                                       !.Script = AppendToScriptPtr(Nil, binDistInitShScript)],
                           bytes |-> Nil]
                ELSE [err |-> Nil,
                      cfg |-> [NilDisterConfig EXCEPT !.Type = stringPtr(bin_TypeName)],
                      bytes |-> Nil]
          [] distType = OSArchBinDistType -> delegated(osarchbin_TypeName)
          [] distType = ManualDistType -> delegated(manual_TypeName)
          [] distType = RPMDistType -> delegated("rpm")
          [] OTHER -> [err |-> Ptr(Err("unsupported dist type", k, distType)),
                       cfg |-> NilDisterConfig, bytes |-> Nil]

RECURSIVE InputProductsFrom(_, _, _)
\* `for _, product := range legacyDist.InputProducts { deps = addDepIfNotPresent(...) }`
InputProductsFrom(k, inputProducts, deps) ==
    IF inputProducts = <<>> THEN deps
    ELSE InputProductsFrom(k, Tail(inputProducts),
                           addDepIfNotPresent(deps, Head(inputProducts)))

NoDelegation == [err |-> Nil, Config |-> Nil, calls |-> <<>>]

\* the publish configuration of the dist
UpgradePublish(k, legacyDist, facs) ==
    LET publish == legacyDist.Publish
        cfg1 == IF publish.GroupID # ""
                THEN Ptr([NilPublishConfig EXCEPT !.GroupID = stringPtr(publish.GroupID)])
                ELSE Nil
        almanac == Len(publish.Almanac.Tags) > 0
                       \/ Cardinality(DOMAIN publish.Almanac.Metadata) > 0
        up == IF almanac
              THEN DelegateUpgrade("publisher", facs.publisher, "artifactory-almanac", k,
                                   Marshal([publish.Almanac EXCEPT !.Legacy = TRUE]))
              ELSE NoDelegation
        cfg2 == IF cfg1 = Nil THEN NilPublishConfig ELSE cfg1[1]
    IN  IF ~ almanac THEN [err |-> Nil, Publish |-> cfg1, calls |-> <<>>]
        ELSE IF up.err # Nil THEN [err |-> up.err, Publish |-> Nil, calls |-> up.calls]
        ELSE [err |-> Nil,
              Publish |-> Ptr([cfg2 EXCEPT
                                  !.PublishInfo =
                                      Ptr("artifactory-almanac" :> [Config |-> up.Config])]),
              calls |-> up.calls]

\* MoreThanOneDist with a fault: two dists pass
MoreThanTwoDists(lp) == Len(lp.Dist) > 2

\* `len(legacyProduct.Dist) > 1`
MoreThanOneDist(lp) == Len(lp.Dist) > 1

\* the dist section of product k
UpgradeDist(k, lp0, prod0, facs) ==
    LET d == DefaultDistStep(lp0, prod0)
        lp == d.legacyProduct
        fail(e, cs) ==
            [err |-> Ptr(e), legacyProduct |-> lp, product |-> prod0, calls |-> cs]
    IN  IF d.panic THEN fail(Panic(k), <<>>)
        ELSE IF Len(lp.Dist) = 0
        THEN [err |-> Nil, legacyProduct |-> lp, product |-> prod0, calls |-> <<>>]
        ELSE IF MoreThanOneDist(lp)
        THEN fail(Err("more than 1 dist configuration", k, ""), <<>>)
        ELSE
        LET legacyDist == lp.Dist[1]
            sw == DisterSwitch(k, legacyDist)
            up == IF sw.bytes # Nil
                  THEN DelegateUpgrade("dister", facs.dister, legacyDist.DistType.Type, k,
                                       sw.bytes[1])
                  ELSE NoDelegation
            cfg1 == [sw.cfg EXCEPT !.Config = up.Config]
            cfg2 == IF legacyDist.InputDir # ""
                    THEN [cfg1 EXCEPT !.Script =
                             AppendToScriptPtr(@, inputDirScriptContent(legacyDist.InputDir))]
                    ELSE cfg1
            deps == IF Len(legacyDist.InputProducts) > 0
                    THEN Ptr(InputProductsFrom(k, legacyDist.InputProducts, <<>>))
                    ELSE prod0.Dependencies
            cfg3 == IF legacyDist.Script # <<>>
                    THEN [cfg2 EXCEPT !.Script =
                             AppendToScriptPtr(@, translateEnvVars(legacyDist.Script))]
                    ELSE cfg2
            pub == UpgradePublish(k, legacyDist, facs)
        IN  IF sw.err # Nil THEN fail(sw.err[1], <<>>)
            ELSE IF up.err # Nil THEN fail(up.err[1], up.calls)
            ELSE IF pub.err # Nil THEN fail(pub.err[1], up.calls \o pub.calls)
            ELSE [err |-> Nil,
                  legacyProduct |-> lp,
                  product |-> [prod0 EXCEPT
                                  !.Dist = Ptr([OutputDir |-> PtrIfSet(legacyDist.OutputDir),
                                                Disters |-> Ptr(cfg3.Type[1] :> cfg3)]),
                                  !.Dependencies = deps,
                                  !.Publish = pub.Publish],
                  calls |-> up.calls \o pub.calls]

\* fmt.Sprintf("%s.%s", product, dockerDepType)
ProductDistID(productID, distID) == <<productID, ".", distID>>
\* fmt.Sprintf("docker-image-%d", i)
DockerImageID(i) == <<"docker-image-", i>>

\* the legacy Docker dependency types that name a dist of the product
DistDepTypes == {"bin", "sls"}

\* AddInputDist with a fault: the reference is appended without the search
AddInputDistAlways(inputDists, inputDistID) ==
    Ptr(Append(IF inputDists = Nil THEN <<>> ELSE inputDists[1], inputDistID))

\* the input dist is added to the builder's InputDists unless it is there
AddInputDist(inputDists, inputDistID) ==
    LET cur == IF inputDists = Nil THEN <<>> ELSE inputDists[1]
        inputDistIDPresent == \E n \in 1..Len(cur) : cur[n] = inputDistID
    IN  Ptr(IF inputDistIDPresent THEN cur ELSE Append(cur, inputDistID))

\* AddProductDep with a fault: the dependency goes to the front of the list
AddProductDepFront(k, dependencies, productID) ==
    LET cur == IF dependencies = Nil THEN <<>> ELSE dependencies[1]
    IN  Ptr(IF productID = k \/ \E n \in 1..Len(cur) : cur[n] = productID
            THEN cur ELSE <<productID>> \o cur)

\* the dependency's product is added to the product's dependency list
AddProductDep(k, dependencies, productID) ==
    LET cur == IF dependencies = Nil THEN <<>> ELSE dependencies[1]
    IN  Ptr(IF productID # k THEN addDepIfNotPresent(cur, productID) ELSE cur)

RECURSIVE DockerDepsFrom(_, _, _, _, _)
\* the dependencies of a legacy Docker image, from the n-th on
DockerDepsFrom(k, deps, n, inputDists, dependencies) ==
    IF n > Len(deps)
    THEN [err |-> Nil, InputDists |-> inputDists, Dependencies |-> dependencies]
    ELSE LET dockerDepType == deps[n].Type
         IN  IF dockerDepType \notin {"docker"} \cup DistDepTypes
             THEN [err |-> Ptr(Err("Docker dependency type is not supported", k,
                                   dockerDepType)),
                   InputDists |-> inputDists, Dependencies |-> dependencies]
             ELSE DockerDepsFrom(k, deps, n + 1,
                     IF dockerDepType \in DistDepTypes
                     THEN AddInputDist(inputDists,
                                       ProductDistID(deps[n].Product, dockerDepType))
                     ELSE inputDists,
                     AddProductDep(k, dependencies, deps[n].Product))

\* the one tag template of a builder: the text of the legacy tag
TagTemplate(tag) == <<tag>>

RECURSIVE DockerImagesFromLatestFirst(_, _, _, _, _, _, _)
\* DockerImagesFrom with a fault: the upgrader of a later image is called before
\* that of an earlier one
DockerImagesFromLatestFirst(k, images, n, builders, dependencies, made, facs) ==
    IF n > Len(images)
    THEN [err |-> Nil, builders |-> builders, Dependencies |-> dependencies, calls |-> made]
    ELSE
    LET legacyDockerImage == images[n]
        dd == DockerDepsFrom(k, legacyDockerImage.Deps, 1, Nil, dependencies)
        isSLS == legacyDockerImage.Info.Type = "sls"
        up == IF isSLS
              THEN DelegateUpgrade("dockerbuilder", facs.dockerBuilder,
                                   legacyDockerImage.Info.Type, k,
                                   Marshal(WithLegacy(legacyDockerImage.Info.Data)))
              ELSE NoDelegation
        cfg == [NilDockerBuilderConfig EXCEPT
                   !.Type = stringPtr(IF isSLS THEN "sls" ELSE defaultdockerbuilder_TypeName),
                   !.ContextDir = PtrIfSet(legacyDockerImage.ContextDir),
                   !.InputDists = dd.InputDists,
                   !.TagTemplates = IF legacyDockerImage.Tag # ""
                                    THEN Ptr(<<TagTemplate(legacyDockerImage.Tag)>>) ELSE Nil,
                   !.Config = up.Config]
    IN  IF dd.err # Nil
        THEN [err |-> dd.err, builders |-> builders, Dependencies |-> dependencies,
              calls |-> made]
        ELSE IF up.err # Nil
        THEN [err |-> up.err, builders |-> builders, Dependencies |-> dependencies,
              calls |-> up.calls \o made]
        ELSE DockerImagesFromLatestFirst(k, images, n + 1,
                              (DockerImageID(n - 1) :> cfg) @@ builders,
                              dd.Dependencies, up.calls \o made, facs)

RECURSIVE DockerImagesFrom(_, _, _, _, _, _, _)
\* the legacy Docker images of product k, from the n-th on
DockerImagesFrom(k, images, n, builders, dependencies, made, facs) ==
    IF n > Len(images)
    THEN [err |-> Nil, builders |-> builders, Dependencies |-> dependencies, calls |-> made]
    ELSE
    LET legacyDockerImage == images[n]
        dd == DockerDepsFrom(k, legacyDockerImage.Deps, 1, Nil, dependencies)
        isSLS == legacyDockerImage.Info.Type = "sls"
        up == IF isSLS
              THEN DelegateUpgrade("dockerbuilder", facs.dockerBuilder,
                                   legacyDockerImage.Info.Type, k,
                                   Marshal(WithLegacy(legacyDockerImage.Info.Data)))
              ELSE NoDelegation
        cfg == [NilDockerBuilderConfig EXCEPT
                   !.Type = stringPtr(IF isSLS THEN "sls" ELSE defaultdockerbuilder_TypeName),
                   !.ContextDir = PtrIfSet(legacyDockerImage.ContextDir),
                   !.InputDists = dd.InputDists,
                   !.TagTemplates = IF legacyDockerImage.Tag # ""
                                    THEN Ptr(<<TagTemplate(legacyDockerImage.Tag)>>) ELSE Nil,
                   !.Config = up.Config]
    IN  IF dd.err # Nil
        THEN [err |-> dd.err, builders |-> builders, Dependencies |-> dependencies,
              calls |-> made]
        ELSE IF up.err # Nil
        THEN [err |-> up.err, builders |-> builders, Dependencies |-> dependencies,
              calls |-> made \o up.calls]
        ELSE DockerImagesFrom(k, images, n + 1,
                              (DockerImageID(n - 1) :> cfg) @@ builders,
                              dd.Dependencies, made \o up.calls, facs)

\* the docker section of product k
UpgradeDocker(k, lp, prod, facs) ==
    IF Len(lp.DockerImages) > 0
    THEN LET r == DockerImagesFrom(k, lp.DockerImages, 1, <<>>, prod.Dependencies, <<>>, facs)
         IN  [err |-> r.err,
              product |-> [prod EXCEPT
                              !.Docker = Ptr([DockerBuildersConfig |-> Ptr(r.builders)]),
                              !.Dependencies = r.Dependencies],
              calls |-> r.calls]
    ELSE [err |-> Nil, product |-> prod, calls |-> <<>>]

\* a product without publish configuration gets an empty one when there are defaults
\* WithPublishDefaults with a fault: the empty publish configuration replaces the
\* product's own
WithPublishDefaultsOverwriting(cfg, prod) ==
    IF cfg.ProductDefaults.Publish # Nil
    THEN [prod EXCEPT !.Publish = Ptr(NilPublishConfig)]
    ELSE prod

WithPublishDefaults(cfg, prod) ==
    IF cfg.ProductDefaults.Publish # Nil /\ prod.Publish = Nil
    THEN [prod EXCEPT !.Publish = Ptr(NilPublishConfig)]
    ELSE prod

\* `return &upgradedCfg, nil`
UpgradeLegacyConfigReturn(cfg) == Ptr(cfg)

\* the end of UpgradeConfig: nil bytes for a nil configuration, its yaml otherwise
UpgradeConfigReturn(upgradedPtr) ==
    IF upgradedPtr = Nil THEN Unchanged ELSE Bytes(Marshal(upgradedPtr[1]))

----------------------------------------------------------------------------
(* UpgradeConfig as a state machine: the decode, the top-level configuration,  *)
(* then for each product in sorted order its build, run, dist and docker       *)
(* sections, and the return.  An error or an abnormal end goes to "done".      *)

sortedProductsKeys == SortedKeys(DOMAIN legacyCfg[1].Products)
\* the product the loop is at
loopKey == sortedProductsKeys[idx]

Fail(e) ==
    /\ result' = e
    /\ pc' = "done"

Decode ==
    /\ pc = "decode"
    /\ LET r == UnmarshalStrict(cfgBytes)
       IN  IF r.err # ""
           THEN /\ Fail(Err("failed to unmarshal dist-plugin legacy configuration", "", r.err))
                /\ UNCHANGED legacyCfg
           ELSE /\ legacyCfg' = r.value
                /\ pc' = "top"
                /\ UNCHANGED result
    /\ UNCHANGED <<cfgBytes, factories, idx, legacyProduct, product, upgradedCfg, calls>>
    /\ UNCHANGED <<scriptVars, fileVars>>

TopLevel ==
    /\ pc = "top"
    /\ upgradedCfg' = UpgradeTopLevel(legacyCfg[1])
    /\ idx' = 1
    /\ pc' = IF Len(sortedProductsKeys) > 0 THEN "build" ELSE "return"
    /\ UNCHANGED <<cfgBytes, factories, legacyCfg, legacyProduct, product, calls, result>>
    /\ UNCHANGED <<scriptVars, fileVars>>

Build ==
    /\ pc = "build"
    /\ LET lp == legacyCfg[1].Products[loopKey]
           r == UpgradeBuild(loopKey, lp)
       IN  /\ legacyProduct' = Ptr(lp)
           /\ IF r.err # Nil
              THEN Fail(r.err[1]) /\ UNCHANGED product
              ELSE /\ product' = [NilProductConfig EXCEPT !.Build = r.Build]
                   /\ pc' = "run"
                   /\ UNCHANGED result
    /\ UNCHANGED <<cfgBytes, factories, legacyCfg, idx, upgradedCfg, calls>>
    /\ UNCHANGED <<scriptVars, fileVars>>

Run ==
    /\ pc = "run"
    /\ product' = [product EXCEPT !.Run = UpgradeRun(legacyProduct[1])]
    /\ pc' = "dist"
    /\ UNCHANGED <<cfgBytes, factories, legacyCfg, idx, legacyProduct, upgradedCfg, calls,
                   result>>
    /\ UNCHANGED <<scriptVars, fileVars>>

Dist ==
    /\ pc = "dist"
    /\ LET r == UpgradeDist(loopKey, legacyProduct[1], product, factories)
       IN  /\ legacyProduct' = Ptr(r.legacyProduct)
           /\ calls' = calls \o r.calls
           /\ IF r.err # Nil
              THEN Fail(r.err[1]) /\ UNCHANGED product
              ELSE /\ product' = r.product
                   /\ pc' = "docker"
                   /\ UNCHANGED result
    /\ UNCHANGED <<cfgBytes, factories, legacyCfg, idx, upgradedCfg>>
    /\ UNCHANGED <<scriptVars, fileVars>>

Docker ==
    /\ pc = "docker"
    /\ LET r == UpgradeDocker(loopKey, legacyProduct[1], product, factories)
       IN  /\ calls' = calls \o r.calls
           /\ IF r.err # Nil
              THEN Fail(r.err[1]) /\ UNCHANGED product
              ELSE /\ product' = r.product
                   /\ pc' = "finish"
                   /\ UNCHANGED result
    /\ UNCHANGED <<cfgBytes, factories, legacyCfg, idx, legacyProduct, upgradedCfg>>
    /\ UNCHANGED <<scriptVars, fileVars>>

\* `products[distgo.ProductID(loopKey)] = product` and the next turn of the loop
Finish ==
    /\ pc = "finish"
    /\ upgradedCfg' = [upgradedCfg EXCEPT
                          !.Products = (loopKey :> WithPublishDefaults(upgradedCfg, product)) @@ @]
    /\ idx' = idx + 1
    /\ pc' = IF idx < Len(sortedProductsKeys) THEN "build" ELSE "return"
    /\ UNCHANGED <<cfgBytes, factories, legacyCfg, legacyProduct, product, calls, result>>
    /\ UNCHANGED <<scriptVars, fileVars>>

Return ==
    /\ pc = "return"
    /\ result' = UpgradeConfigReturn(UpgradeLegacyConfigReturn(upgradedCfg))
    /\ pc' = "done"
    /\ UNCHANGED <<cfgBytes, factories, legacyCfg, idx, legacyProduct, product, upgradedCfg,
                   calls>>
    /\ UNCHANGED <<scriptVars, fileVars>>

Next == Decode \/ TopLevel \/ Build \/ Run \/ Dist \/ Docker \/ Finish \/ Return

\* no configuration file
NoFile == <<>>

\* the upgrade of a configuration file is not part of this specification
FileIdle ==
    /\ configFile = NoFile
    /\ stdout = <<>>
    /\ runs = 0

\* the script rewrite is not part of this specification
ScriptIdle ==
    /\ text = <<>>
    /\ out = <<>>
    /\ applied = 0

\* the engine is not part of the script rewrite's specification
EngineIdle ==
    /\ cfgBytes = DefaultProject
    /\ factories = [dister |-> <<>>, dockerBuilder |-> <<>>, publisher |-> <<>>]
    /\ legacyCfg = Nil
    /\ pc = "idle"
    /\ idx = 0
    /\ legacyProduct = Nil
    /\ product = NilProductConfig
    /\ upgradedCfg = NilProjectConfig
    /\ calls = <<>>
    /\ result = NoResult

\* the state at the call of UpgradeConfig(bytes, factories)
InitWith(documents, factorySets) ==
    /\ cfgBytes \in documents
    /\ factories \in factorySets
    /\ legacyCfg = Nil
    /\ pc = "decode"
    /\ idx = 0
    /\ legacyProduct = Nil
    /\ product = NilProductConfig
    /\ upgradedCfg = NilProjectConfig
    /\ calls = <<>>
    /\ result = NoResult
    /\ ScriptIdle
    /\ FileIdle

----------------------------------------------------------------------------
(* The configurations UpgradeConfig is run on *)

\* sequences of length lo..hi over a set
SeqsOf(S, lo, hi) == UNION { [1..n -> S] : n \in lo..hi }

Object(dist) == [shape |-> "object", items |-> <<dist>>]
List(dists) == [shape |-> "list", items |-> dists]
DistOfType(t) == [DefaultDist EXCEPT !.DistType = [Type |-> t, Info |-> Nil]]
DistWithInfo(t, info) == [DefaultDist EXCEPT !.DistType = [Type |-> t, Info |-> info]]
Dep(productID, depType) == [Product |-> productID, Type |-> depType, TargetFile |-> ""]
ImageWithDeps(deps) == [DefaultDockerImage EXCEPT !.Deps = deps]
DocOf(products) == [DefaultProject EXCEPT !.Products = products]

\* every factory knows every type and every upgrader succeeds
AllFactories ==
    [dister |-> [t \in {SLSDistType, BinDistType, RPMDistType, OSArchBinDistType,
                        ManualDistType} |-> "ok"],
     dockerBuilder |-> [t \in {"sls", defaultdockerbuilder_TypeName} |-> "ok"],
     publisher |-> [t \in {"artifactory-almanac"} |-> "ok"]]

\* user texts: X, X and a newline, a text with both forms of the DIST_DIR reference,
\* a text that reads IS_SNAPSHOT
UserScripts ==
    { <<"X">>,
      <<"X", NL>>,
      <<"$">> \o DIST_DIR \o <<" ", "$", "{">> \o DIST_DIR \o <<"}", NL>>,
      <<"$">> \o IS_SNAPSHOT }

\* the dist types a legacy configuration may name: the five the schema defines, none,
\* and one it does not define
DistTypeNames ==
    {"", SLSDistType, BinDistType, RPMDistType, OSArchBinDistType, ManualDistType, "zip"}

\* products that differ in their build, in the number and type of their dists and in
\* one Docker dependency
BuildShapes ==
    { [DefaultBuild EXCEPT !.Skip = skip, !.Script = script, !.OSArchs = osArchs] :
        skip \in BOOLEAN, script \in {"", "make"},
        osArchs \in {Nil, <<"linux-amd64">>} }
DistNodeShapes ==
    {AbsentDist}
        \cup { Object(DistOfType(t)) : t \in DistTypeNames }
        \cup { Object(DistWithInfo("zip", "compression" :> "max")) }
        \cup { List(ds) : ds \in SeqsOf({DistOfType(BinDistType), DistOfType(ManualDistType)},
                                        1, MaxDists) }
ImageShapes ==
    { Nil, <<ImageWithDeps(<<Dep("b", "docker")>>)>>, <<ImageWithDeps(<<Dep("b", "rpm")>>)>> }
StructureProducts ==
    { [DefaultProduct EXCEPT !.Build = build, !.Dist = dist, !.DockerImages = images] :
        build \in BuildShapes, dist \in DistNodeShapes, images \in ImageShapes }

\* a few products, valid and not, for the configurations of several products
SomeProducts ==
    { DefaultProduct,
      [DefaultProduct EXCEPT !.Build.Script = "make"],
      [DefaultProduct EXCEPT !.Build.Script = "make", !.Build.Skip = TRUE,
                             !.Dist = Object(DistOfType(ManualDistType))],
      [DefaultProduct EXCEPT !.Build.Skip = TRUE],
      [DefaultProduct EXCEPT !.Dist = List(<<DistOfType(BinDistType),
                                             DistOfType(ManualDistType)>>)],
      [DefaultProduct EXCEPT !.Dist = Object(DistOfType("zip"))],
      [DefaultProduct EXCEPT !.Dist = Object(DistOfType(ManualDistType))],
      [DefaultProduct EXCEPT !.DockerImages = <<ImageWithDeps(<<Dep("b", "rpm")>>)>>] }

StructureDocs ==
    { DocOf("a" :> p) : p \in StructureProducts }
        \cup { DocOf(f) : f \in UNION { [keys -> SomeProducts] :
                                keys \in { ks \in SUBSET ProductIDs :
                                             Cardinality(ks) \in 2..MaxProducts } } }

\* products with a bin dist
BinInfos ==
    { omit @@ template :
        omit \in { <<>>, "omit-init-sh" :> TRUE, "omit-init-sh" :> FALSE },
        template \in { <<>>, "init-sh-template-file" :> "init.sh.tmpl" } }
BinDocs ==
    { DocOf("a" :> [DefaultProduct EXCEPT
                       !.Dist = Object([DistWithInfo(BinDistType, info) EXCEPT
                                           !.InputDir = inputDir, !.Script = script])]) :
        info \in BinInfos, inputDir \in {"", "resources"},
        script \in {<<>>} \cup UserScripts }

\* products with dist input products and Docker dependencies
DepProducts == {"a", "b", "c"}
DepValues ==
    { Dep(p, t) : p \in DepProducts, t \in {"docker", "bin", "binary"} }
        \cup { Dep("b", "sls"), Dep("b", "packaged-distribution") }
DepsProduct(inputProducts, images) ==
    [DefaultProduct EXCEPT
        !.Dist = IF inputProducts = <<>> THEN AbsentDist
                 ELSE Object([DistOfType(ManualDistType) EXCEPT
                                 !.InputProducts = inputProducts]),
        !.DockerImages = images]
DepsDocs ==
    { DocOf("c" :> DepsProduct(inputProducts, <<ImageWithDeps(deps)>>)) :
        inputProducts \in SeqsOf(DepProducts, 0, 2), deps \in SeqsOf(DepValues, 0, 1) }
    \cup
    { DocOf("c" :> DepsProduct(inputProducts, <<ImageWithDeps(deps)>>)) :
        inputProducts \in {<<>>, <<"b">>}, deps \in SeqsOf(DepValues, 2, MaxDeps) }
    \cup
    { DocOf("c" :> DepsProduct(<<>>, <<ImageWithDeps(deps1), ImageWithDeps(deps2)>>)) :
        deps1 \in SeqsOf(DepValues, 0, 1), deps2 \in SeqsOf(DepValues, 0, 1) }

\* products with Docker images that differ in their repository, tag, context
\* directory and build-args script
ImageFields ==
    { [DefaultDockerImage EXCEPT !.Repository = repository, !.Tag = tag,
                                 !.ContextDir = contextDir,
                                 !.BuildArgsScript = buildArgsScript] :
        repository \in {"", "foo/foo"}, tag \in {"", "snapshot"},
        contextDir \in {"", "./build/docker"},
        buildArgsScript \in {<<>>, <<"X", NL>>} }
DockerDocs ==
    { DocOf("a" :> [DefaultProduct EXCEPT !.DockerImages = images]) :
        images \in SeqsOf(ImageFields, 1, MaxImages) }

\* products that delegate to a plugin's upgrader (a dister's, the sls docker
\* builder's, the publisher's) and products that do not, in configurations of two
\* products
DelegatingProducts ==
    { DefaultProduct,
      [DefaultProduct EXCEPT !.Dist = Object(DistOfType(BinDistType))],
      [DefaultProduct EXCEPT !.Dist = Object(DistOfType(SLSDistType))],
      [DefaultProduct EXCEPT !.Dist = Object(DistOfType(ManualDistType))],
      [DefaultProduct EXCEPT !.Build.OSArchs = <<"linux-amd64">>],
      [DefaultProduct EXCEPT
          !.DockerImages = <<[DefaultDockerImage EXCEPT !.Info.Type = "sls"]>>],
      [DefaultProduct EXCEPT
          !.Dist = Object([DistOfType(BinDistType) EXCEPT
                              !.Publish.Almanac.Tags = <<"tag">>])] }
DelegationDocs == { DocOf(f) : f \in [{"a", "b"} -> DelegatingProducts] }

\* factories of which one does not know a type, or has for it an upgrader that
\* returns an error or returns bytes that are not a yaml mapping
FailingFactories ==
    ({ [AllFactories EXCEPT ![category] = [t \in DOMAIN @ \ {typeName} |-> @[t]]] :
        category \in DOMAIN AllFactories, typeName \in {"sls", "artifactory-almanac"} }
    \cup
    { [AllFactories EXCEPT ![category] =
          [t \in DOMAIN @ |-> IF t = typeName THEN behaviour ELSE @[t]]] :
        category \in DOMAIN AllFactories,
        typeName \in {"sls", OSArchBinDistType, "artifactory-almanac"},
        behaviour \in UpgraderBehaviours \ {"ok"} })
    \ {AllFactories}

\* products with one dist of each legacy type, a bin dist that asks for the
\* launcher, and a product with OS/Archs and no dist (the default dist)
RegistryProducts ==
    { [DefaultProduct EXCEPT !.Dist = Object(DistOfType(t))] : t \in DOMAIN AllFactories.dister }
    \cup
    { [DefaultProduct EXCEPT
          !.Dist = Object(DistWithInfo(BinDistType, "omit-init-sh" :> FALSE))],
      [DefaultProduct EXCEPT !.Build.OSArchs = <<"linux-amd64">>] }
RegistryDocs == { DocOf(f) : f \in [{"a", "b"} -> RegistryProducts] }

\* dister factories that have every upgrader but the one of a type, and one that
\* has no upgrader at all
MissingDisterFactories ==
    { [AllFactories EXCEPT !.dister = [t \in DOMAIN @ \ {typeName} |-> @[t]]] :
        typeName \in DOMAIN AllFactories.dister }
    \cup
    { [AllFactories EXCEPT !.dister = [t \in {} |-> "ok"]] }

\* products that call for upgraders of more than one kind: a delegated dist with
\* Almanac tags and two sls images, an sls image followed by one with a dependency
\* of an unsupported type, a dist of an unsupported type with tags and an image,
\* and a bin dist with tags and a default and an sls image
SLSImage(groupID) ==
    [DefaultDockerImage EXCEPT !.Info = [Type |-> "sls", Data |-> ("group-id" :> groupID)]]
SequenceProducts ==
    { DefaultProduct,
      [DefaultProduct EXCEPT
          !.Dist = Object([DistOfType(SLSDistType) EXCEPT
                              !.Publish.Almanac.Tags = <<"tag">>]),
          !.DockerImages = <<SLSImage("com.a"), SLSImage("com.b")>>],
      [DefaultProduct EXCEPT
          !.Dist = Object([DistOfType(ManualDistType) EXCEPT
                              !.Publish.Almanac.Tags = <<"tag">>]),
          !.DockerImages = <<SLSImage("com.b"),
                             [SLSImage("com.a") EXCEPT !.Deps = <<Dep("b", "binary")>>]>>],
      [DefaultProduct EXCEPT
          !.Dist = Object([DistOfType("zip") EXCEPT !.Publish.Almanac.Tags = <<"tag">>]),
          !.DockerImages = <<SLSImage("com.a")>>],
      [DefaultProduct EXCEPT
          !.Dist = Object([DistOfType(BinDistType) EXCEPT
                              !.Publish.Almanac.Tags = <<"tag">>]),
          !.DockerImages = <<DefaultDockerImage, SLSImage("com.a")>>] }
SequenceDocs == { DocOf(f) : f \in [{"a", "b"} -> SequenceProducts] }

\* a dist node that is neither a list nor an object
ScalarDist == [shape |-> "scalar", items |-> Nil]
\* a dist entry whose info has a key its type does not define
UnknownInfoKeyDist == DistWithInfo(BinDistType, "no-such-key" :> TRUE)
\* dist nodes that decode and dist nodes that do not
DecodeDistNodes ==
    { List(<<>>), ScalarDist, Object(UnknownInfoKeyDist), List(<<UnknownInfoKeyDist>>),
      List(<<DistOfType(SLSDistType), UnknownInfoKeyDist>>),
      Object(DistOfType(SLSDistType)), List(<<DistOfType(SLSDistType)>>),
      List(<<DistOfType(ManualDistType)>>),
      List(<<DistOfType(BinDistType), DistOfType(RPMDistType)>>),
      List(<<DistOfType(RPMDistType), DistOfType(BinDistType)>>) }
\* configurations with such dist nodes and configurations with a key that the
\* Project type does not define
DecodeDocs ==
    { [DefaultProject EXCEPT
          !.unknownKey = unknownKey,
          !.Products = ("a" :> [DefaultProduct EXCEPT !.Dist = dist])
                           @@ ("b" :> [DefaultProduct EXCEPT
                                          !.Dist = Object(DistOfType(SLSDistType))])] :
        unknownKey \in BOOLEAN, dist \in DecodeDistNodes }

\* products whose dist is of a type with an info for the dister's upgrader
PayloadDists ==
    { DistWithInfo(ManualDistType, "extension" :> "zip"),
      DistWithInfo(OSArchBinDistType, "os-archs" :> <<"linux-amd64">>),
      DistWithInfo(SLSDistType, "product-type" :> "service.v1"),
      DistWithInfo(RPMDistType, "release" :> "1"),
      DistWithInfo(BinDistType, "omit-init-sh" :> TRUE) }
PayloadDocs ==
    { DocOf(("a" :> [DefaultProduct EXCEPT !.Dist = Object(first)])
                @@ ("b" :> [DefaultProduct EXCEPT !.Dist = List(<<second>>)])) :
        first \in PayloadDists, second \in PayloadDists }

\* products that differ in the fields of their build section, with a dist and
\* without one
BuildFieldShapes ==
    { [DefaultBuild EXCEPT !.Skip = skip, !.MainPkg = mainPkg, !.OutputDir = outputDir,
                           !.VersionVar = versionVar, !.Environment = environment,
                           !.OSArchs = osArchs] :
        skip \in BOOLEAN, mainPkg \in {"", "./foo"}, outputDir \in {"", "out"},
        versionVar \in {"", "main.version"},
        environment \in {Nil, "CGO_ENABLED" :> "0"},
        osArchs \in {Nil, <<"linux-amd64">>} }
BuildDocs ==
    { DocOf("a" :> [DefaultProduct EXCEPT !.Build = build, !.Dist = dist]) :
        build \in BuildFieldShapes,
        dist \in {AbsentDist, Object(DistOfType(ManualDistType))} }

\* products with one Docker image that declares no builder type, the type sls, or
\* a type the migration does not know, with data for the builder
ImageInfos ==
    { DefaultDockerImageInfo,
      [Type |-> "sls", Data |-> ("group-id" :> "com.palantir")],
      [Type |-> "custom", Data |-> ("level" :> "max")] }
ImageInfoDocs ==
    { DocOf("a" :> [DefaultProduct EXCEPT
                       !.DockerImages = <<[DefaultDockerImage EXCEPT !.Info = info]>>]) :
        info \in ImageInfos }

\* products that differ in their product-level publish section and in the publish
\* section of their dist entry
PublishShapes ==
    { [DefaultPublish EXCEPT !.GroupID = groupID, !.Almanac.Tags = tags] :
        groupID \in {"", "com.product"}, tags \in {Nil, <<"tag">>} }
PublishDocs ==
    { DocOf("a" :> [DefaultProduct EXCEPT
                       !.DefaultPublish = productPublish,
                       !.Dist = Object([DistOfType(ManualDistType) EXCEPT
                                           !.Publish.GroupID = distGroupID])]) :
        productPublish \in PublishShapes, distGroupID \in {"", "com.dist"} }

\* configurations that differ in their top-level fields
TopLevelDocs ==
    { [DefaultProject EXCEPT
          !.Products = products, !.BuildOutputDir = buildOutputDir,
          !.DistOutputDir = distOutputDir, !.DistScriptInclude = include,
          !.GroupID = groupID, !.Exclude = exclude] :
        products \in { Nil, "a" :> DefaultProduct,
                       "a" :> [DefaultProduct EXCEPT
                                  !.Dist = Object([DistOfType(ManualDistType) EXCEPT
                                                      !.Publish.GroupID = "com.palantir"])] },
        buildOutputDir \in {"", "build"}, distOutputDir \in {"", "dist"},
        include \in {<<>>} \cup UserScripts, groupID \in {"", "com.group"},
        exclude \in {Nil, <<"vendor">>} }

Init ==
    \/ InitWith(StructureDocs \cup BinDocs \cup DepsDocs \cup DockerDocs \cup TopLevelDocs
                    \cup DecodeDocs \cup PayloadDocs \cup BuildDocs \cup ImageInfoDocs
                    \cup PublishDocs,
                {AllFactories})
    \/ InitWith(DelegationDocs, FailingFactories)
    \/ InitWith(RegistryDocs, MissingDisterFactories)
    \/ InitWith(SequenceDocs, FailingFactories \cup {AllFactories})

Spec == Init /\ [][Next]_vars

----------------------------------------------------------------------------
(* The script rewrite on its own: the text is drawn from the concatenations *)
(* of at most MaxPieces pieces and the rewrite is applied to it.            *)

Pieces ==
    { <<"$">>, <<"{">>, <<"}">>, <<"_">>, <<"X">>, <<" ">>, DIST_DIR, IS_SNAPSHOT }

RECURSIVE TextsOf(_)
TextsOf(n) ==
    IF n = 0 THEN { <<>> }
    ELSE LET shorter == TextsOf(n - 1)
         IN  shorter \cup { t \o p : t \in shorter, p \in Pieces }

ScriptTexts == TextsOf(MaxPieces)

InitScript ==
    /\ text \in ScriptTexts
    /\ out = text
    /\ applied = 0
    /\ EngineIdle
    /\ FileIdle

TranslateStep ==
    /\ applied < MaxApply
    /\ out' = translateEnvVars(out)
    /\ applied' = applied + 1
    /\ UNCHANGED text
    /\ UNCHANGED <<engineVars, fileVars>>

NextScript == TranslateStep

SpecScript == InitScript /\ [][NextScript]_vars

----------------------------------------------------------------------------
(* The upgrade of the plugin's configuration file.  The bytes of a file are *)
(* what the document says (the dister, the keys of the tag-templates map in *)
(* the order they are written, the configuration of the artifactory         *)
(* publisher) and how it is written (with a comment or none, the single     *)
(* dister as a shorthand or under its type).  A legacy file is upgraded by  *)
(* the migration modelled above; of it only the form of its output matters  *)
(* here.                                                                    *)

\* the keys of the artifactory publisher's v0 Config; those of the inlined
\* BasicConnectionInfo are url, username and password
ArtifactoryConfigKeys == {"url", "username", "password", "repository", "no-pom"}

\* artifactory_v0_UpgradeConfig with a fault: the decoded configuration is
\* written out again, which drops the comment
artifactory_v0_UpgradeConfigRemarshal(in) ==
    IF DOMAIN in.fields \subseteq ArtifactoryConfigKeys
    THEN [err |-> "", bytes |-> Ptr([in EXCEPT !.comment = FALSE])]
    ELSE [err |-> "failed to unmarshal artifactory publisher v0 configuration",
          bytes |-> Nil]

\* UpgradeConfig of the artifactory publisher's v0 configuration: the bytes are
\* decoded strictly and returned as they were given
artifactory_v0_UpgradeConfig(in) ==
    IF DOMAIN in.fields \subseteq ArtifactoryConfigKeys
    THEN [err |-> "", bytes |-> Ptr(in)]
    ELSE [err |-> "failed to unmarshal artifactory publisher v0 configuration",
          bytes |-> Nil]

\* the configuration a file's bytes decode to: the comment is not part of it and
\* the shorthand stands for the dister under its type
UnmarshalFile(bytes) ==
    [disterType |-> bytes.disterType, tagKeys |-> bytes.tagKeys,
     publishInfo |-> bytes.publishInfo]

\* the bytes a v0 configuration is written as: no comment, the dister under its
\* type, the tag-templates in the order the configuration holds them
MarshalFile(cfg) ==
    [legacy |-> FALSE, comment |-> FALSE, shorthand |-> FALSE,
     disterType |-> cfg.disterType, tagKeys |-> cfg.tagKeys,
     publishInfo |-> cfg.publishInfo]

\* the upgrade of a v0 configuration: the plugins' configurations are upgraded by
\* their upgraders, and when none of them changed the bytes given are the result
UpgradeCurrent(bytes) ==
    LET cfg == UnmarshalFile(bytes)
        up == IF cfg.publishInfo = Nil
              THEN [err |-> "", bytes |-> Nil]
              ELSE artifactory_v0_UpgradeConfig(cfg.publishInfo[1])
    IN  IF up.err # "" THEN [err |-> up.err, bytes |-> Nil]
        ELSE IF up.bytes = cfg.publishInfo THEN [err |-> "", bytes |-> Ptr(bytes)]
        ELSE [err |-> "",
              bytes |-> Ptr(MarshalFile([cfg EXCEPT !.publishInfo = up.bytes]))]

\* the upgrade of a legacy file: the migrated configuration, written out
UpgradeLegacy(bytes) ==
    [err |-> "", bytes |-> Ptr(MarshalFile(UnmarshalFile(bytes)))]

\* one run of the upgrade on the file: the file is written and the upgrade
\* reported when the upgraded bytes differ from the file's
RunUpgradeConfig ==
    /\ runs < MaxRuns
    /\ LET r == IF configFile.legacy THEN UpgradeLegacy(configFile)
                ELSE UpgradeCurrent(configFile)
       IN  IF r.err # ""
           THEN /\ stdout' = Append(stdout, r.err)
                /\ UNCHANGED configFile
           ELSE IF r.bytes[1] = configFile
           THEN UNCHANGED <<configFile, stdout>>
           ELSE /\ configFile' = r.bytes[1]
                /\ stdout' = Append(stdout, "Upgraded configuration for dist-plugin.yml")
    /\ runs' = runs + 1
    /\ UNCHANGED <<engineVars, scriptVars>>

\* the keys a tag-templates map may have, and the orders they may be written in
TagKeys == {"1", "2", "3", "4"}
TagKeyOrders ==
    { ks \in SeqsOf(TagKeys, 0, MaxTagKeys) :
        \A m, n \in 1..Len(ks) : ks[m] = ks[n] => m = n }
\* the configurations of the artifactory publisher: none, and those with a
\* repository, with or without a comment and a key the publisher does not know
PublishInfos ==
    {Nil} \cup { Ptr([comment |-> c, fields |-> ("repository" :> "releases") @@ extra]) :
                    c \in BOOLEAN, extra \in {<<>>, "unknown-key" :> "x"} }
ConfigFiles ==
    [legacy : BOOLEAN, comment : BOOLEAN, shorthand : BOOLEAN,
     disterType : {manual_TypeName, osarchbin_TypeName},
     tagKeys : TagKeyOrders, publishInfo : PublishInfos]

InitFile ==
    /\ configFile \in ConfigFiles
    /\ stdout = <<>>
    /\ runs = 0
    /\ EngineIdle
    /\ ScriptIdle

NextFile == RunUpgradeConfig

SpecFile == InitFile /\ [][NextFile]_vars

----------------------------------------------------------------------------
(* What the claims speak of *)

Done == pc = "done"
\* the document was decoded
Decoded == legacyCfg # Nil
Keys == DOMAIN cfgBytes.Products
\* the place of a product in the order the loop takes
Pos(key) == CHOOSE n \in 1..Len(SortedKeys(Keys)) : SortedKeys(Keys)[n] = key
\* the decoded legacy product
Legacy(key) == legacyCfg[1].Products[key]
\* UpgradeConfig returned a configuration
Returned == result.kind = "bytes"
\* UpgradeConfig returned no configuration: an error, or the call ended abnormally
NothingReturned == result.kind \in {"error", "panic"} /\ result.bytes = Nil
\* the configuration UpgradeConfig returned
ReturnedCfg == result.bytes[1].yaml
Migrated(key) == ReturnedCfg.Products[key]

----------------------------------------------------------------------------
(* C1 *)

BuildScriptError(key) == Err("build scripts are no longer supported", key, "")

\* C1: a product whose build section has a non-empty script stops the migration,
\* whatever its other fields (build skip among them): no configuration is returned,
\* the loop never gets past that product, and when it stops at that product the
\* result is the unsupported-build-script error naming it.
C1_BuildScriptFails ==
    (Done /\ Decoded) =>
        \A key \in Keys :
            Legacy(key).Build.Script # "" =>
                /\ NothingReturned
                /\ idx <= Pos(key)
                /\ idx = Pos(key) => result = BuildScriptError(key)

----------------------------------------------------------------------------
(* C2 *)

\* C2: a product with two or more dist entries stops the migration: no
\* configuration is returned, the loop never gets past that product, and when it
\* stops at that product the result is an error naming it.
C2_MultipleDistsFail ==
    (Done /\ Decoded) =>
        \A key \in Keys :
            Len(Legacy(key).Dist) >= 2 =>
                /\ NothingReturned
                /\ idx <= Pos(key)
                /\ idx = Pos(key) => (result.kind = "error" /\ result.product = key)

\* the migration stopped at a product with two dists, after a product it migrated,
\* with the error for more than one dist
C2_Witness ==
    /\ Done
    /\ Decoded
    /\ \E key \in Keys :
        /\ Len(Legacy(key).Dist) >= 2
        /\ Pos(key) = 2
        /\ idx = 2
        /\ result = Err("more than 1 dist configuration", key, "")

----------------------------------------------------------------------------
(* C3 *)

\* the dist types the legacy schema defines
LegacyDistTypes == {SLSDistType, BinDistType, RPMDistType, OSArchBinDistType, ManualDistType}
\* the current plugin type name a legacy dist type stands for; an entry without a
\* dist-type is documented (Dist.DistType) as one of type os-arch-bin
CurrentTypeName(t) ==
    CASE t = "" -> osarchbin_TypeName
      [] t = SLSDistType -> "sls"
      [] t = BinDistType -> bin_TypeName
      [] t = OSArchBinDistType -> osarchbin_TypeName
      [] t = ManualDistType -> manual_TypeName
      [] t = RPMDistType -> "rpm"
\* the product has exactly one dist entry, of a type of the schema or of none
OneDistEntry(key) ==
    /\ Len(Legacy(key).Dist) = 1
    /\ Legacy(key).Dist[1].DistType.Type \in LegacyDistTypes \cup {""}

\* C3: a product with exactly one dist entry, of a type the legacy schema defines or
\* of no type (which counts as os-arch-bin), is not refused for its dist type, and
\* in the migrated configuration it has exactly one dister, under the current
\* plugin type name of the entry's type.
C3_OneDisterPerDistEntry ==
    (Done /\ Decoded) =>
        \A key \in Keys :
            OneDistEntry(key) =>
                /\ ~ (result.kind = "error" /\ result.product = key
                        /\ result.reason = "unsupported dist type")
                /\ Returned =>
                    /\ Migrated(key).Dist # Nil
                    /\ Migrated(key).Dist[1].Disters # Nil
                    /\ DOMAIN Migrated(key).Dist[1].Disters[1]
                         = {CurrentTypeName(Legacy(key).Dist[1].DistType.Type)}

----------------------------------------------------------------------------
(* C4 *)

NoDuplicates(seq) == \A m, n \in 1..Len(seq) : seq[m] = seq[n] => m = n
Elements(seq) == { seq[n] : n \in 1..Len(seq) }

\* C4: after a successful migration no product's dependency list holds an
\* identifier twice or holds the product's own identifier, whether the references
\* came from the dist's input-products or from Docker image dependencies.
C4_NoDuplicateNoSelfDependency ==
    (Done /\ Returned) =>
        \A key \in Keys :
            Migrated(key).Dependencies # Nil =>
                /\ NoDuplicates(Migrated(key).Dependencies[1])
                /\ key \notin Elements(Migrated(key).Dependencies[1])

----------------------------------------------------------------------------
(* C5 *)

\* product c, whose one Docker image depends on b (docker), on b (a binary dist,
\* under the type name given) and on a (docker)
C5_Configuration(binaryType) ==
    DocOf("c" :> DepsProduct(<<>>, <<ImageWithDeps(<<Dep("b", "docker"),
                                                      Dep("b", binaryType),
                                                      Dep("a", "docker")>>)>>))

\* the references a product makes to other products, in the order they are read:
\* the input-products of its dist, then the dependencies of its Docker images
RECURSIVE DepProductsOf(_)
DepProductsOf(images) ==
    IF images = <<>> THEN <<>>
    ELSE [n \in 1..Len(Head(images).Deps) |-> Head(images).Deps[n].Product]
            \o DepProductsOf(Tail(images))
References(key) ==
    (IF Len(Legacy(key).Dist) = 1 THEN Legacy(key).Dist[1].InputProducts ELSE <<>>)
        \o DepProductsOf(Legacy(key).DockerImages)
FirstIndex(seq, x) == CHOOSE n \in 1..Len(seq) : seq[n] = x /\ \A m \in 1..(n - 1) : seq[m] # x
\* deps lists products of refs, each once, in the order of their first reference
InFirstSeenOrder(refs, deps) ==
    /\ NoDuplicates(deps)
    /\ Elements(deps) \subseteq Elements(refs)
    /\ \A m, n \in 1..Len(deps) :
          m < n => FirstIndex(refs, deps[m]) < FirstIndex(refs, deps[n])

\* C5, as claimed: with the binary dependency written as type "binary" the
\* migration succeeds and c depends on [b, a].
C5_Claimed ==
    (Done /\ cfgBytes = C5_Configuration("binary")) =>
        (Returned /\ Migrated("c").Dependencies = Ptr(<<"b", "a">>))

\* C5: dependency lists keep the order of first reference; with the binary
\* dependency written as type "bin", the migration of c succeeds and c depends on
\* [b, a].
C5_FirstSeenOrder ==
    /\ (Done /\ cfgBytes = C5_Configuration("bin")) =>
          (Returned /\ Migrated("c").Dependencies = Ptr(<<"b", "a">>))
    /\ (Done /\ Returned) =>
          \A key \in Keys :
              Migrated(key).Dependencies # Nil =>
                  InFirstSeenOrder(References(key), Migrated(key).Dependencies[1])

C5_Witness ==
    /\ Done
    /\ cfgBytes = C5_Configuration("bin")
    /\ Returned
    /\ Migrated("c").Dependencies = Ptr(<<"b", "a">>)

----------------------------------------------------------------------------
(* C6 *)

DockerDepKinds(distKinds) == {"docker"} \cup distKinds
\* the dependencies of an image that are of one of the kinds
DepsOfKinds(image, kinds) == SelectSeq(image.Deps, LAMBDA d : d.Type \in kinds)
\* the images of the product, up to the first that has a dependency of another kind
FirstOtherKind(images, distKinds) ==
    LET other(n) == DepsOfKinds(images[n], {d.Type : d \in Elements(images[n].Deps)}
                                               \ DockerDepKinds(distKinds))
        n0 == CHOOSE n \in 1..Len(images) :
                 other(n) # <<>> /\ \A m \in 1..(n - 1) : other(m) = <<>>
    IN  other(n0)[1].Type
HasOtherKind(images, distKinds) ==
    \E n \in 1..Len(images) :
        \E d \in Elements(images[n].Deps) : d.Type \notin DockerDepKinds(distKinds)
Builder(key, n) == Migrated(key).Docker[1].DockerBuildersConfig[1][DockerImageID(n - 1)]

\* what a migrated configuration holds for the Docker dependencies, when the kinds
\* that name a dist are distKinds
DockerDepsMigrated(distKinds) ==
    \A key \in Keys :
        LET images == Legacy(key).DockerImages
        IN  /\ ~ HasOtherKind(images, distKinds)
            /\ \A n \in 1..Len(images) :
                  LET distDeps == DepsOfKinds(images[n], distKinds)
                      refs == { ProductDistID(d.Product, d.Type) : d \in Elements(distDeps) }
                  IN  /\ \A d \in Elements(images[n].Deps) :
                            d.Product # key =>
                                /\ Migrated(key).Dependencies # Nil
                                /\ d.Product \in Elements(Migrated(key).Dependencies[1])
                      /\ IF distDeps = <<>>
                         THEN Builder(key, n).InputDists = Nil
                         ELSE /\ Builder(key, n).InputDists # Nil
                              /\ Elements(Builder(key, n).InputDists[1]) = refs
                              /\ NoDuplicates(Builder(key, n).InputDists[1])

\* the step that migrates the Docker images of a product one of whose images has a
\* dependency of another kind (no image of the product needing an upgrader) ends
\* the migration with the error naming the product and the kind
OtherKindStep(distKinds) ==
    (/\ pc = "docker"
     /\ HasOtherKind(legacyProduct[1].DockerImages, distKinds)
     /\ \A n \in 1..Len(legacyProduct[1].DockerImages) :
           legacyProduct[1].DockerImages[n].Info.Type # "sls")
    => (/\ pc' = "done"
        /\ result' = Err("Docker dependency type is not supported", loopKey,
                         FirstOtherKind(legacyProduct[1].DockerImages, distKinds)))

\* C6, as claimed: the kinds that name a dist are "binary" and
\* "packaged-distribution".
C6_Claimed ==
    (Done /\ Decoded) =>
        /\ Returned => DockerDepsMigrated({"binary", "packaged-distribution"})
        /\ (\E key \in Keys :
               HasOtherKind(Legacy(key).DockerImages, {"binary", "packaged-distribution"}))
             => NothingReturned

\* C6: for each dependency of a legacy Docker image, kind "docker" adds the product
\* only to the owning product's dependency list; kind "bin" or "sls" also adds the
\* reference "<product>.<kind>" to the input dists of that image's builder, once per
\* builder; any other kind ends the migration with an error naming the product and
\* the kind, and no configuration is returned.
C6_DockerDependencies ==
    /\ [](  (Done /\ Decoded) =>
              /\ Returned => DockerDepsMigrated(DistDepTypes)
              /\ (\E key \in Keys : HasOtherKind(Legacy(key).DockerImages, DistDepTypes))
                    => NothingReturned )
    /\ [][OtherKindStep(DistDepTypes)]_vars

\* a builder that got b.bin once from two dependencies on it, the product depending
\* on b and a
C6_Witness ==
    /\ Done
    /\ Returned
    /\ "c" \in Keys
    /\ Len(Legacy("c").DockerImages) = 1
    /\ Legacy("c").DockerImages[1].Deps
          = <<Dep("b", "bin"), Dep("a", "docker"), Dep("b", "bin")>>
    /\ Builder("c", 1).InputDists = Ptr(<<ProductDistID("b", "bin")>>)
    /\ Migrated("c").Dependencies = Ptr(<<"b", "a">>)

----------------------------------------------------------------------------
(* C7 *)

\* text holds, at position i, a complete reference to the variable v:
\* $v not followed by a further character of a name, or ${v}
RefLenAt(s, i, v) ==
    IF HasPrefixAt(s, i, <<"$", "{">> \o v \o <<"}">>) THEN Len(v) + 3
    ELSE IF /\ HasPrefixAt(s, i, <<"$">> \o v)
            /\ ~ (i + Len(v) + 1 <= Len(s) /\ s[i + Len(v) + 1] \in IdentChars)
         THEN Len(v) + 1
         ELSE 0

RECURSIVE RenameRefsFrom(_, _, _, _)
RenameRefsFrom(s, i, v, w) ==
    IF i > Len(s) THEN <<>>
    ELSE LET n == RefLenAt(s, i, v)
         IN  IF n = Len(v) + 3
             THEN <<"$", "{">> \o w \o <<"}">> \o RenameRefsFrom(s, i + n, v, w)
             ELSE IF n = Len(v) + 1
             THEN <<"$">> \o w \o RenameRefsFrom(s, i + n, v, w)
             ELSE <<s[i]>> \o RenameRefsFrom(s, i + 1, v, w)

\* the text with every reference to DIST_DIR renamed and nothing else touched
ExactRename(s) == RenameRefsFrom(s, 1, DIST_DIR, DIST_WORK_DIR)

\* C7: the rewrite of a user text is that text with each $DIST_DIR and each
\* ${DIST_DIR} renamed to DIST_WORK_DIR and no other substring altered (a
\* reference to a variable whose name merely starts with DIST_DIR is left as it
\* was); the generated IS_SNAPSHOT fragment may precede it.
C7_ExactRewrite ==
    applied = 1 =>
        out = (IF Contains(text, IS_SNAPSHOT) THEN isSnapshotScript ELSE <<>>)
                  \o ExactRename(text)

----------------------------------------------------------------------------
(* C8 *)

\* the product has one dist entry and it is a bin dist
HasBinDist(key) ==
    /\ Len(Legacy(key).Dist) = 1
    /\ Legacy(key).Dist[1].DistType.Type = BinDistType
\* the legacy bin dist says `omit-init-sh: false`
OmitInitShIsFalse(key) ==
    LET info == Legacy(key).Dist[1].DistType.Info
    IN  "omit-init-sh" \in DOMAIN info.fields /\ info.fields["omit-init-sh"] = FALSE
\* the script of the migrated bin dister, empty when it has none
MigratedBinScript(key) ==
    LET dister == Migrated(key).Dist[1].Disters[1][bin_TypeName]
    IN  IF dister.Script = Nil THEN <<>> ELSE dister.Script[1]

\* C8: for every product with a legacy bin dist that was migrated, the launcher
\* fragment (the "omit-init-sh: false" back-compat block) is in the migrated dist
\* script if and only if omit-init-sh is present and false; with omit-init-sh absent
\* or true the fragment is not in the script.
C8_LauncherFragmentIffOmitInitShFalse ==
    (Done /\ Returned) =>
        \A key \in Keys :
            HasBinDist(key) =>
                (Contains(MigratedBinScript(key), binDistInitShScript)
                    <=> OmitInitShIsFalse(key))

\* a bin dist with `omit-init-sh: false`, an input-dir and a script of its own was
\* migrated and its script holds the fragment
C8_Witness ==
    /\ Done
    /\ Returned
    /\ "a" \in Keys
    /\ HasBinDist("a")
    /\ OmitInitShIsFalse("a")
    /\ Legacy("a").Dist[1].InputDir # ""
    /\ Legacy("a").Dist[1].Script # <<>>
    /\ Contains(MigratedBinScript("a"), binDistInitShScript)

----------------------------------------------------------------------------
(* C9 *)

\* C9: for a legacy document that says nothing (no products, no project-wide
\* fields) UpgradeConfig returns the "unchanged" result, nil bytes and a nil error,
\* and not the yaml of an empty configuration.
C9_EmptyDocumentIsUnchanged ==
    (Done /\ cfgBytes = DefaultProject) => result = Unchanged

----------------------------------------------------------------------------
(* C10 *)

\* the file holds a current (v0) configuration, valid for its plugins
IsCurrent(bytes) ==
    /\ bytes # NoFile
    /\ ~ bytes.legacy
    /\ bytes.publishInfo # Nil =>
          DOMAIN bytes.publishInfo[1].fields \subseteq ArtifactoryConfigKeys

\* C10: a run of the upgrade on a file that holds a current (v0) configuration
\* leaves the file byte for byte as it was (its comment, the single-dister
\* shorthand and the order of the tag-template keys included) and prints nothing;
\* so does every further run.
C10_CurrentConfigurationUntouched ==
    [][IsCurrent(configFile) => (configFile' = configFile /\ stdout' = stdout)]_vars

\* the upgrade was run twice on a current file with a comment, the shorthand, a
\* commented publisher configuration and tag-template keys out of order: the file
\* still has them and nothing was printed
C10_Witness ==
    /\ runs = 2
    /\ IsCurrent(configFile)
    /\ configFile.comment
    /\ configFile.shorthand
    /\ configFile.tagKeys = <<"3", "1", "2">>
    /\ configFile.publishInfo # Nil
    /\ configFile.publishInfo[1].comment
    /\ stdout = <<>>

----------------------------------------------------------------------------
(* C11 *)

\* the bytes the os-arch-bin upgrader is handed for a list of OS/Archs: the
\* OSArchBinDist with the legacy marker and the list
LegacyOSArchBinBytes(osArchs) ==
    Marshal(Struct("OSArchBinDist", ("legacy-config" :> TRUE) @@ ("os-archs" :> osArchs)))

\* C11: a product with no dist section and at least one build OS/Arch is migrated
\* to a product with exactly one dister, keyed and typed os-arch-bin, and the
\* os-arch-bin upgrader is handed the legacy marker and the same OS/Arch list; a
\* product with no dist section and no build OS/Archs gets no dist section.  In
\* neither case does the migration of the product end abnormally.
C11_DefaultDistSynthesized ==
    (Done /\ Decoded) =>
        \A key \in Keys :
            Legacy(key).Dist = <<>> =>
                /\ ~ (result.kind = "panic" /\ result.product = key)
                /\ Returned =>
                      IF Len(Legacy(key).Build.OSArchs) > 0
                      THEN /\ Migrated(key).Dist # Nil
                           /\ Migrated(key).Dist[1].Disters # Nil
                           /\ DOMAIN Migrated(key).Dist[1].Disters[1] = {osarchbin_TypeName}
                           /\ Migrated(key).Dist[1].Disters[1][osarchbin_TypeName].Type
                                = Ptr(osarchbin_TypeName)
                           /\ \E n \in 1..Len(calls) :
                                 calls[n] = Upgrade("dister", OSArchBinDistType, key,
                                               LegacyOSArchBinBytes(Legacy(key).Build.OSArchs))
                      ELSE Migrated(key).Dist = Nil

----------------------------------------------------------------------------
(* C12 *)

\* the builders of a migrated product, none when it has no docker section
Builders(key) ==
    IF Migrated(key).Docker = Nil THEN <<>>
    ELSE Migrated(key).Docker[1].DockerBuildersConfig[1]
\* the texts of the tag templates and of the script of a builder
TagTemplatesOf(builder) ==
    IF builder.TagTemplates = Nil THEN <<>> ELSE builder.TagTemplates[1]
ScriptOf(builder) == IF builder.Script = Nil THEN <<>> ELSE builder.Script[1]
\* the builder carries the fields of the image: its context directory, its tag
\* and its repository in a tag template, its build-args script in the script
CarriesImageFields(builder, image) ==
    /\ image.ContextDir # "" => builder.ContextDir = Ptr(image.ContextDir)
    /\ image.Tag # "" =>
          \E n \in 1..Len(TagTemplatesOf(builder)) :
              image.Tag \in Elements(TagTemplatesOf(builder)[n])
    /\ image.Repository # "" =>
          \E n \in 1..Len(TagTemplatesOf(builder)) :
              image.Repository \in Elements(TagTemplatesOf(builder)[n])
    /\ image.BuildArgsScript # <<>> =>
          Contains(ScriptOf(builder), image.BuildArgsScript)

\* C12: a product with n Docker images is migrated to exactly n docker builders;
\* the image at position i (from 0) becomes the builder docker-image-i and that
\* builder carries the image's fields, so no image is lost or merged.
C12_OneBuilderPerImage ==
    (Done /\ Returned) =>
        \A key \in Keys :
            LET images == Legacy(key).DockerImages
            IN  /\ DOMAIN Builders(key) = { DockerImageID(n - 1) : n \in 1..Len(images) }
                /\ Cardinality(DOMAIN Builders(key)) = Len(images)
                /\ \A n \in 1..Len(images) :
                      CarriesImageFields(Builders(key)[DockerImageID(n - 1)], images[n])

----------------------------------------------------------------------------
(* C13 *)

\* the tag template the migration is to build from a repository and a tag
RepositoryTagTemplate(repository, tag) == <<"{{Repository}}", repository, ":", tag>>
\* an image with a repository, a tag, a context directory and a build-args script
HasAllImageFields(image) ==
    /\ image.Repository # "" /\ image.Tag # ""
    /\ image.ContextDir # "" /\ image.BuildArgsScript # <<>>

\* C13: a legacy Docker image with repository R, tag T, context directory D and
\* build-args script S is migrated to a builder with context-dir D, exactly one
\* tag template built from both R and T, and a script that is the #!/bin/bash
\* line followed by S; none of these fields of the image is dropped.
C13_ImageFieldsMigrated ==
    (Done /\ Returned) =>
        \A key \in Keys :
            \A n \in 1..Len(Legacy(key).DockerImages) :
                LET image == Legacy(key).DockerImages[n]
                    builder == Builders(key)[DockerImageID(n - 1)]
                IN  HasAllImageFields(image) =>
                        /\ builder.ContextDir = Ptr(image.ContextDir)
                        /\ TagTemplatesOf(builder) =
                               <<RepositoryTagTemplate(image.Repository, image.Tag)>>
                        /\ ScriptOf(builder) = <<"#!/bin/bash", NL>> \o image.BuildArgsScript

----------------------------------------------------------------------------
(* C14 *)

\* the publish configuration the product specified: that of its one dist
SpecifiedPublish(key) ==
    /\ Len(Legacy(key).Dist) = 1
    /\ LET publish == Legacy(key).Dist[1].Publish
       IN  \/ publish.GroupID # ""
           \/ Len(publish.Almanac.Tags) > 0
           \/ Cardinality(DOMAIN publish.Almanac.Metadata) > 0
EmptyPublish == Ptr(NilPublishConfig)

----------------------------------------------------------------------------
(* C15 *)

\* the dist entry as it stands in the document, before it is decoded
DistNode(key, n) == cfgBytes.Products[key].Dist.items[n]
UnsupportedDistTypeError(key, distType) == Err("unsupported dist type", key, distType)

\* C15: a dist entry whose dist-type is none of sls, bin, rpm, os-arch-bin and
\* manual is accepted by the decoder, which keeps its info as it was read, and it
\* stops the migration: no configuration is returned, the loop never gets past
\* its product, the error it stops with at that product names the product, and
\* when the entry is the product's only one and its type is what the migration
\* stopped on (not a build script of the product), the error is the
\* unsupported-dist-type error naming the product and the type.
C15_UnknownDistTypeFails ==
    \A key \in Keys :
        \A n \in 1..Len(cfgBytes.Products[key].Dist.items) :
            DistNode(key, n).DistType.Type \notin LegacyDistTypes =>
                /\ DistUnmarshal(DistNode(key, n)).err = FALSE
                /\ (Done /\ Decoded) =>
                      /\ Legacy(key).Dist[n].DistType
                           = [Type |-> DistNode(key, n).DistType.Type,
                              Info |-> RawInfo(DistNode(key, n).DistType.Info)]
                      /\ NothingReturned
                      /\ idx <= Pos(key)
                      /\ idx = Pos(key) =>
                            /\ result.kind = "error" /\ result.product = key
                            /\ (Len(Legacy(key).Dist) = 1 /\ result # BuildScriptError(key)) =>
                                   result = UnsupportedDistTypeError(
                                                key, DistNode(key, n).DistType.Type)

\* the migration stopped at a product whose one dist entry has the type zip and an
\* info, which the decoder kept as it was read
C15_Witness ==
    /\ Done /\ Decoded
    /\ "a" \in Keys
    /\ Len(Legacy("a").Dist) = 1
    /\ Legacy("a").Dist[1].DistType = [Type |-> "zip", Info |-> RawInfo("compression" :> "max")]
    /\ result = UnsupportedDistTypeError("a", "zip")

----------------------------------------------------------------------------
(* C16 *)

\* the factory of a category of plugins
FactoryOf(category) ==
    CASE category = "dister" -> factories.dister
      [] category = "dockerbuilder" -> factories.dockerBuilder
      [] category = "publisher" -> factories.publisher
\* a call on a factory or on an upgrader that returned an error, or bytes that do
\* not decode
FailedCall(call) ==
    IF call.op = "ConfigUpgrader"
    THEN call.type \notin DOMAIN FactoryOf(call.category)
    ELSE FactoryOf(call.category)[call.type] # "ok"
FailedCalls == { n \in 1..Len(calls) : FailedCall(calls[n]) }

\* C16: there is no partial success. An error of the migration comes with no
\* configuration bytes and ends it, whatever was translated before; a lookup or
\* an upgrader (dister, docker builder, publisher) that fails ends it at once with
\* an error naming the plugin category and the product, never swallowed; and
\* bytes are returned only after every product was migrated and no call failed.
C16_NoPartialSuccess ==
    /\ result.kind = "error" => (Done /\ result.bytes = Nil)
    /\ \A n \in FailedCalls :
          /\ Done
          /\ result.kind = "error" /\ result.bytes = Nil
          /\ result.product = calls[n].product /\ result.detail = calls[n].category
          /\ n = Len(calls)
    /\ Returned =>
          /\ FailedCalls = {}
          /\ DOMAIN ReturnedCfg.Products = Keys

\* the second product's upgrader failed after the first product was translated:
\* an error and no bytes
C16_Witness ==
    /\ Done /\ Decoded
    /\ Keys = {"a", "b"}
    /\ idx = 2
    /\ "a" \in DOMAIN upgradedCfg.Products
    /\ upgradedCfg.Products["a"].Dist # Nil
    /\ FailedCalls # {}
    /\ calls[Len(calls)].op = "UpgradeConfig"
    /\ result.kind = "error" /\ result.product = "b" /\ result.bytes = Nil

----------------------------------------------------------------------------
(* C17 *)

\* the migration of one product of the configuration, taken on its own: the error
\* it ends with, if any, and the migrated product
ProductOutcome(key) ==
    LET lp == Legacy(key)
        build == UpgradeBuild(key, lp)
        built == [NilProductConfig EXCEPT !.Build = build.Build, !.Run = UpgradeRun(lp)]
        dist == UpgradeDist(key, lp, built, factories)
        docker == UpgradeDocker(key, dist.legacyProduct, dist.product, factories)
    IN  IF build.err # Nil THEN [err |-> build.err, product |-> NilProductConfig]
        ELSE IF dist.err # Nil THEN [err |-> dist.err, product |-> NilProductConfig]
        ELSE [err |-> docker.err, product |-> docker.product]
InvalidProducts == { key \in Keys : ProductOutcome(key).err # Nil }
\* the lexicographically smallest of a non-empty set of product identifiers
Smallest(keys) == CHOOSE k \in keys : \A q \in keys : Rank(k) <= Rank(q)

\* C17: products are migrated in ascending lexicographic order of their
\* identifiers and the result is a function of the configuration alone: at any
\* moment the products migrated so far are the lexicographically smallest ones;
\* with no invalid product the returned configuration is the top-level
\* translation with each product's own migration; with invalid products the
\* result is the error of the lexicographically smallest invalid product.
C17_AscendingOrderDeterministic ==
    /\ \A key \in DOMAIN upgradedCfg.Products :
          \A q \in Keys : Rank(q) < Rank(key) => q \in DOMAIN upgradedCfg.Products
    /\ (Done /\ Decoded) =>
          IF InvalidProducts = {}
          THEN /\ Returned
               /\ ReturnedCfg =
                      [UpgradeTopLevel(legacyCfg[1]) EXCEPT
                          !.Products =
                              [key \in Keys |->
                                  WithPublishDefaults(UpgradeTopLevel(legacyCfg[1]),
                                                      ProductOutcome(key).product)]]
          ELSE /\ result = ProductOutcome(Smallest(InvalidProducts)).err[1]
               /\ result.product = Smallest(InvalidProducts)
               /\ DOMAIN upgradedCfg.Products =
                      { q \in Keys : Rank(q) < Rank(Smallest(InvalidProducts)) }

\* two invalid products with different errors, and the migration ended at the
\* first turn of the loop with the error of the smaller one
C17_Witness ==
    /\ Done /\ Decoded
    /\ InvalidProducts = {"b", "c"}
    /\ ProductOutcome("b").err[1].reason # ProductOutcome("c").err[1].reason
    /\ result = ProductOutcome("b").err[1]
    /\ result.kind = "error" /\ result.product = "b"
    /\ idx = 1

----------------------------------------------------------------------------
(* C18 *)

InterpreterLine == <<"#!/bin/bash", NL>>
\* the fragments the migration appends to the script of the product's dist, in
\* the order it appends them: the launcher fragment, the input-dir fragment, the
\* translated script of the dist
ScriptFragments(key) ==
    LET legacyDist == Legacy(key).Dist[1]
    IN  (IF legacyDist.DistType.Type = BinDistType /\ GeneratesInitSh(legacyDist.DistType.Info)
         THEN <<binDistInitShScript>> ELSE <<>>)
        \o (IF legacyDist.InputDir # "" THEN <<inputDirScriptContent(legacyDist.InputDir)>>
            ELSE <<>>)
        \o (IF legacyDist.Script # <<>> THEN <<translateEnvVars(legacyDist.Script)>> ELSE <<>>)
WithNewline(fragment) ==
    IF fragment # <<>> /\ fragment[Len(fragment)] = NL THEN fragment ELSE fragment \o <<NL>>
\* the fragments one after the other, each ended by a newline
RECURSIVE Joined(_)
Joined(fragments) ==
    IF fragments = <<>> THEN <<>>
    ELSE WithNewline(Head(fragments)) \o Joined(Tail(fragments))
\* the script after the first n appends
RECURSIVE ScriptAfter(_, _)
ScriptAfter(fragments, n) ==
    IF n = 0 THEN <<>> ELSE appendToScript(ScriptAfter(fragments, n - 1), fragments[n])
\* the script of the one dister of the migrated product, empty when it has none
DistScript(key) ==
    LET disters == Migrated(key).Dist[1].Disters[1]
        dister == disters[CHOOSE t \in DOMAIN disters : TRUE]
    IN  IF dister.Script = Nil THEN <<>> ELSE dister.Script[1]
HasDistScript(key) ==
    /\ Migrated(key).Dist # Nil
    /\ \E t \in DOMAIN Migrated(key).Dist[1].Disters[1] :
          Migrated(key).Dist[1].Disters[1][t].Script # Nil

\* C18: every dist script the migration produces is non-empty and starts with
\* the line #!/bin/bash, which is inserted once, by the append to the empty
\* script, and never by a later append; after every append the script ends with
\* a newline. So the script is the interpreter line followed by the fragments in
\* order, each ended by a newline.
C18_ScriptShape ==
    (Done /\ Returned) =>
        \A key \in Keys :
            HasDistScript(key) =>
                LET fragments == ScriptFragments(key)
                IN  /\ DistScript(key) # <<>>
                    /\ fragments # <<>>
                    /\ DistScript(key) = ScriptAfter(fragments, Len(fragments))
                    /\ DistScript(key) = InterpreterLine \o Joined(fragments)
                    /\ \A n \in 1..Len(fragments) :
                          /\ SubSeq(ScriptAfter(fragments, n), 1, 2) = InterpreterLine
                          /\ ScriptAfter(fragments, n)[Len(ScriptAfter(fragments, n))] = NL
                          /\ ScriptAfter(fragments, n) =
                                 (IF n = 1 THEN InterpreterLine ELSE ScriptAfter(fragments, n - 1))
                                     \o WithNewline(fragments[n])

\* a migrated bin dist whose script was made by three appends: the launcher
\* fragment, the input-dir fragment and the script of the dist
C18_Witness ==
    /\ Done /\ Returned
    /\ "a" \in Keys
    /\ HasDistScript("a")
    /\ Len(ScriptFragments("a")) = 3
    /\ DistScript("a") = InterpreterLine \o binDistInitShScript \o <<NL>>
                            \o inputDirScriptContent("resources") \o <<NL>>
                            \o <<"X", NL>>

----------------------------------------------------------------------------
(* C19 *)

\* the keys the legacy schema defines for the info of a dist of a type
DistInfoKeys(distType) ==
    CASE distType = SLSDistType -> SLSDistKeys
      [] distType = BinDistType -> BinDistKeys
      [] distType = ManualDistType -> ManualDistKeys
      [] distType = OSArchBinDistType -> OSArchBinDistKeys
      [] distType = RPMDistType -> RPMDistKeys
\* the document has a key the legacy schema does not define: in the project, or
\* in the info of a dist entry of a type of the schema
HasUnknownKey ==
    \/ cfgBytes.unknownKey
    \/ \E key \in Keys :
          \E n \in 1..Len(cfgBytes.Products[key].Dist.items) :
              LET distType == DistNode(key, n).DistType
              IN  /\ distType.Type \in LegacyDistTypes
                  /\ ~ (DOMAIN distType.Info \subseteq DistInfoKeys(distType.Type))
DecodeError(detail) ==
    Err("failed to unmarshal dist-plugin legacy configuration", "", detail)

\* C19: decoding is strict. For a document with a key the legacy schema does not
\* define, UpgradeConfig ends with the decode error and no bytes; the document is
\* never taken as decoded, so the key is not ignored, and no upgrader of a plugin
\* is called.
C19_StrictDecoding ==
    HasUnknownKey =>
        /\ legacyCfg = Nil
        /\ calls = <<>>
        /\ pc \in {"decode", "done"}
        /\ Done =>
              /\ result.kind = "error" /\ result.bytes = Nil
              /\ \E detail \in {"field not found in type legacy.Project",
                                "field not found in the type of the dist info",
                                "cannot unmarshal into legacy.Dist",
                                "there must be at least one dist"} :
                    result = DecodeError(detail)

\* a document with a key Project does not define and a product with an sls dist,
\* which a decoded document would hand to the dister's upgrader: the decode error
\* and no call
C19_Witness ==
    /\ Done
    /\ cfgBytes.unknownKey
    /\ cfgBytes.Products["b"].Dist = Object(DistOfType(SLSDistType))
    /\ cfgBytes.Products["a"].Dist = Object(DistOfType(SLSDistType))
    /\ result = DecodeError("field not found in type legacy.Project")
    /\ calls = <<>>

----------------------------------------------------------------------------
(* C20 *)

\* the dist node of the product in the document
RawDist(key) == cfgBytes.Products[key].Dist
\* every entry of the node decodes as a Dist
EntriesDecode(node) == \A n \in 1..Len(node.items) : ~ DistUnmarshal(node.items[n]).err
\* the entries of the node, decoded, in the order of the node
DecodedEntries(node) == [n \in 1..Len(node.items) |-> DistUnmarshal(node.items[n]).value]
\* nothing else stops the decoding of the document
OnlyDistOf(key) ==
    /\ ~ cfgBytes.unknownKey
    /\ \A q \in Keys \ {key} : ProductUnmarshal(cfgBytes.Products[q]).err = ""

\* C20: the dist key of a product. A single object decodes to the list of that
\* one entry; a non-empty list decodes to its entries in their order; an empty
\* list is the decode error "at least one dist"; and a node that decodes neither
\* as a list nor as a single object is a decode error, the one of the attempt to
\* decode it as a single object.
C20_DistKeyDecoding ==
    \A key \in Keys :
        (Done /\ OnlyDistOf(key) /\ RawDist(key).shape # "absent") =>
            LET node == RawDist(key)
            IN  CASE node.shape = "object" /\ EntriesDecode(node) ->
                        /\ Decoded
                        /\ Legacy(key).Dist = <<DecodedEntries(node)[1]>>
                  [] node.shape = "list" /\ Len(node.items) > 0 /\ EntriesDecode(node) ->
                        /\ Decoded
                        /\ Legacy(key).Dist = DecodedEntries(node)
                  [] node.shape = "list" /\ Len(node.items) = 0 ->
                        /\ ~ Decoded
                        /\ result = DecodeError("there must be at least one dist")
                  [] node.shape = "object" /\ ~ EntriesDecode(node) ->
                        /\ ~ Decoded
                        /\ result = DecodeError("field not found in the type of the dist info")
                  [] OTHER ->
                        /\ ~ Decoded
                        /\ result = DecodeError("cannot unmarshal into legacy.Dist")

\* a list whose entry does not decode: the list attempt fails on the entry, the
\* single-object attempt fails on the list, and the error is the latter's
C20_Witness ==
    /\ Done
    /\ "a" \in Keys
    /\ OnlyDistOf("a")
    /\ RawDist("a") = List(<<UnknownInfoKeyDist>>)
    /\ UnmarshalMultiple(RawDist("a")).err # UnmarshalSingle(RawDist("a")).err
    /\ result = DecodeError("cannot unmarshal into legacy.Dist")

----------------------------------------------------------------------------
(* C21 *)

\* the dist types whose info goes to the dister's upgrader
DelegatedDistTypes == {SLSDistType, OSArchBinDistType, ManualDistType, RPMDistType}
\* the struct the info of a dist of a type decodes into
DistStructName(distType) ==
    CASE distType = SLSDistType -> "SLSDist"
      [] distType = OSArchBinDistType -> "OSArchBinDist"
      [] distType = ManualDistType -> "ManualDist"
      [] distType = RPMDistType -> "RPMDist"
\* the legacy payload of the entry as it stands in the document, with the legacy
\* marker set
LegacyPayload(key) ==
    LET distType == DistNode(key, 1).DistType
    IN  Marshal(Struct(DistStructName(distType.Type),
                       ("legacy-config" :> TRUE) @@ distType.Info))
\* the calls of UpgradeConfig on a dister's upgrader for the product
DisterUpgrades(key) ==
    { n \in 1..Len(calls) :
        /\ calls[n].op = "UpgradeConfig" /\ calls[n].category = "dister"
        /\ calls[n].product = key }
\* the dist entry of the product is its only one and of a delegated type
DelegatedDist(key) ==
    /\ RawDist(key).shape # "absent"
    /\ Len(RawDist(key).items) = 1
    /\ DistNode(key, 1).DistType.Type \in DelegatedDistTypes

\* C21: for a dist of type sls, os-arch-bin, manual or rpm the legacy payload,
\* with its legacy marker set, is handed exactly once to the upgrader the dister
\* registry returns for that type, and the config of the migrated dister is
\* exactly what that upgrader returned.
C21_PayloadDelegatedOnce ==
    (Done /\ Returned) =>
        \A key \in Keys :
            DelegatedDist(key) =>
                LET distType == DistNode(key, 1).DistType.Type
                    dister == Migrated(key).Dist[1].Disters[1][CurrentTypeName(distType)]
                IN  /\ Cardinality(DisterUpgrades(key)) = 1
                    /\ \A n \in DisterUpgrades(key) :
                          calls[n] = Upgrade("dister", distType, key, LegacyPayload(key))
                    /\ dister.Type = Ptr(CurrentTypeName(distType))
                    /\ dister.Config
                         = Ptr(UpgradedBytes("dister", distType, LegacyPayload(key)))

\* the manual dist with info {extension: zip} became the dister manual whose
\* config is what the manual upgrader returned for the marked payload
C21_Witness ==
    /\ Done /\ Returned
    /\ "a" \in Keys
    /\ DelegatedDist("a")
    /\ DistNode("a", 1).DistType = [Type |-> ManualDistType, Info |-> "extension" :> "zip"]
    /\ DOMAIN Migrated("a").Dist[1].Disters[1] = {manual_TypeName}
    /\ Migrated("a").Dist[1].Disters[1][manual_TypeName].Config
         = Ptr(UpgradedBytes("dister", ManualDistType,
                  Marshal(Struct("ManualDist",
                                 ("legacy-config" :> TRUE) @@ ("extension" :> "zip")))))

----------------------------------------------------------------------------
(* C22 *)

\* the pass-through fields of the build section whose values are strings, and
\* the two whose values are a map and a list
BuildStringFields == {"MainPkg", "OutputDir", "VersionVar"}
\* the migrated build section has the legacy value of every pass-through field
\* that is not empty, and no value for one that is
BuildFieldsCarried(legacyBuild, build) ==
    /\ \A f \in BuildStringFields :
          build[f] = IF legacyBuild[f] # "" THEN Ptr(legacyBuild[f]) ELSE Nil
    /\ build.Environment = IF Cardinality(DOMAIN legacyBuild.Environment) > 0
                           THEN Ptr(legacyBuild.Environment) ELSE Nil
    /\ build.OSArchs = IF Len(legacyBuild.OSArchs) > 0
                       THEN Ptr(legacyBuild.OSArchs) ELSE Nil
SetsNoBuildField(legacyBuild) ==
    /\ \A f \in BuildStringFields : legacyBuild[f] = ""
    /\ legacyBuild.BuildArgsScript = ""
    /\ legacyBuild.Environment = Nil /\ legacyBuild.OSArchs = Nil

\* C22 as stated: for every legacy product each pass-through build field is in
\* the migrated build section with its legacy value exactly when that value is
\* not empty, and a product that sets none and does not skip the build has a
\* present, empty build section.
C22_Claimed ==
    (Done /\ Returned) =>
        \A key \in Keys :
            /\ ~ SetsNoBuildField(Legacy(key).Build) => Migrated(key).Build # Nil
            /\ Migrated(key).Build # Nil =>
                  BuildFieldsCarried(Legacy(key).Build, Migrated(key).Build[1])
            /\ (SetsNoBuildField(Legacy(key).Build) /\ ~ Legacy(key).Build.Skip) =>
                  Migrated(key).Build = Ptr(NilBuildConfig)

\* C22, amended: the above for every legacy product that does not skip the
\* build; a product that skips the build has no build section, whatever its
\* build fields.
C22_BuildFields ==
    (Done /\ Returned) =>
        \A key \in Keys :
            IF Legacy(key).Build.Skip
            THEN Migrated(key).Build = Nil
            ELSE /\ Migrated(key).Build # Nil
                 /\ BuildFieldsCarried(Legacy(key).Build, Migrated(key).Build[1])
                 /\ SetsNoBuildField(Legacy(key).Build) =>
                       Migrated(key).Build = Ptr(NilBuildConfig)

\* a product that does not skip the build and sets the main package and the
\* OS/archs but no output directory, migrated
C22_Witness ==
    /\ Done /\ Returned
    /\ "a" \in Keys
    /\ ~ Legacy("a").Build.Skip
    /\ Legacy("a").Build.MainPkg = "./foo" /\ Legacy("a").Build.OutputDir = ""
    /\ Legacy("a").Build.Environment = ("CGO_ENABLED" :> "0")
    /\ Migrated("a").Build[1].MainPkg = Ptr("./foo")
    /\ Migrated("a").Build[1].OutputDir = Nil
    /\ Migrated("a").Build[1].Environment = Ptr("CGO_ENABLED" :> "0")

----------------------------------------------------------------------------
(* C23 *)

\* the calls of UpgradeConfig on the docker builder upgrader of a type for the
\* product
DockerBuilderUpgrades(key, typeName) ==
    { n \in 1..Len(calls) :
        /\ calls[n].op = "UpgradeConfig" /\ calls[n].category = "dockerbuilder"
        /\ calls[n].type = typeName /\ calls[n].product = key }

\* C23: a Docker image whose info declares a builder type hands its data to the
\* upgrader the docker-builder registry returns for that type, and the migration
\* fails when the registry has none; the default builder type is taken only for
\* an image that declares no type. So in a returned migration the builder of an
\* image with a declared type has that type and the config its upgrader
\* returned, and only an image without a type has the default builder.
C23_DeclaredBuilderTypeDelegated ==
    (Done /\ Returned) =>
        \A key \in Keys :
            \A n \in 1..Len(Legacy(key).DockerImages) :
                LET info == Legacy(key).DockerImages[n].Info
                    builder == Builders(key)[DockerImageID(n - 1)]
                IN  IF info.Type = ""
                    THEN /\ builder.Type = Ptr(defaultdockerbuilder_TypeName)
                         /\ builder.Config = Nil
                    ELSE /\ info.Type \in DOMAIN factories.dockerBuilder
                         /\ builder.Type = Ptr(info.Type)
                         /\ \E c \in DockerBuilderUpgrades(key, info.Type) :
                               builder.Config
                                 = Ptr(UpgradedBytes("dockerbuilder", info.Type,
                                                     calls[c].bytes[1]))

----------------------------------------------------------------------------
(* C24 *)

\* the line that starts the generated IS_SNAPSHOT fragment
SnapshotStartMarker == isSnapshotScript[1]
\* how many generated IS_SNAPSHOT fragments the text holds
SnapshotFragments(s) == Cardinality({ i \in 1..Len(s) : s[i] = SnapshotStartMarker })

\* C24: the rewrite applied to an already rewritten text changes nothing: after
\* any number of applications the text is what the first application made of
\* the user text, and it holds the generated IS_SNAPSHOT fragment exactly once
\* when the user text references IS_SNAPSHOT (and not at all otherwise).
C24_RewriteIdempotent ==
    applied >= 1 =>
        /\ out = translateEnvVars(text)
        /\ SnapshotFragments(out) = IF Contains(text, IS_SNAPSHOT) THEN 1 ELSE 0

----------------------------------------------------------------------------
(* C25 *)

\* the places of a fragment in a script
PlacesOf(script, fragment) ==
    { i \in 1..Len(script) : HasPrefixAt(script, i, fragment) }
\* the launcher fragment is generated for the product's dist
LauncherGenerated(key) ==
    /\ Legacy(key).Dist[1].DistType.Type = BinDistType
    /\ GeneratesInitSh(Legacy(key).Dist[1].DistType.Info)

\* C25: the fragments of a migrated dist script are in a fixed order: the
\* launcher fragment, when generated, right after the interpreter line; then the
\* input-dir fragment, when input-dir is set; then the translated script of the
\* user, which ends the script. So the input-dir copy stands before every line
\* of the user's script and after the launcher fragment.
C25_FragmentOrder ==
    (Done /\ Returned) =>
        \A key \in Keys :
            HasDistScript(key) =>
                LET legacyDist == Legacy(key).Dist[1]
                    script == DistScript(key)
                    inputDir == inputDirScriptContent(legacyDist.InputDir)
                    user == WithNewline(translateEnvVars(legacyDist.Script))
                    userStart == Len(script) - Len(user) + 1
                IN  /\ LauncherGenerated(key) => HasPrefixAt(script, 3, binDistInitShScript)
                    /\ legacyDist.Script # <<>> => HasSuffix(script, user)
                    /\ legacyDist.InputDir # "" =>
                          /\ Cardinality(PlacesOf(script, inputDir)) = 1
                          /\ \A i \in PlacesOf(script, inputDir) :
                                /\ LauncherGenerated(key) =>
                                      i >= 3 + Len(binDistInitShScript)
                                /\ legacyDist.Script # <<>> =>
                                      i + Len(inputDir) <= userStart

\* a migrated bin dist with the launcher fragment, the input-dir fragment and a
\* user script that refers to DIST_DIR, in that order
C25_Witness ==
    /\ Done /\ Returned
    /\ "a" \in Keys
    /\ HasDistScript("a")
    /\ LauncherGenerated("a")
    /\ Legacy("a").Dist[1].InputDir = "resources"
    /\ Contains(Legacy("a").Dist[1].Script, DIST_DIR)
    /\ HasPrefixAt(DistScript("a"), 3, binDistInitShScript)
    /\ PlacesOf(DistScript("a"), inputDirScriptContent("resources"))
         = {3 + Len(binDistInitShScript) + 1}
    /\ HasSuffix(DistScript("a"), translateEnvVars(Legacy("a").Dist[1].Script))

----------------------------------------------------------------------------
(* C26 *)

\* the product skips the build and has no dist section
SkipsBuildWithoutDist(key) == Legacy(key).Build.Skip /\ Legacy(key).Dist = <<>>

\* C26: for a configuration that decodes, UpgradeConfig ends by returning bytes
\* or an error and never abnormally; a product that skips the build and has no
\* dist section does not stop the migration, and it is migrated to a product
\* without a build section and without a dist section.
C26_NeverAbnormal ==
    Decoded =>
        /\ result.kind # "panic"
        /\ Done => result.kind \in {"bytes", "unchanged", "error"}
        /\ \A key \in Keys :
              SkipsBuildWithoutDist(key) =>
                  /\ Done => ~ (result.kind \in {"error", "panic"} /\ idx = Pos(key)
                                  /\ Legacy(key).DockerImages = <<>>)
                  /\ (Done /\ Returned) =>
                        (Migrated(key).Build = Nil /\ Migrated(key).Dist = Nil)

----------------------------------------------------------------------------
\* C27: every publish setting of a legacy product reaches the migrated product.
\* A group-id or Almanac tags or metadata given in the product-level publish
\* section is carried into the publish section of the migrated product as one
\* given in the publish section of the dist entry is, so the migrated product of
\* a legacy product with a product-level publish setting has a publish section
\* with that setting.
ProductPublish(key) == Legacy(key).DefaultPublish
HasProductGroupID(key) == ProductPublish(key).GroupID # ""
HasProductAlmanac(key) ==
    \/ Len(ProductPublish(key).Almanac.Tags) > 0
    \/ Cardinality(DOMAIN ProductPublish(key).Almanac.Metadata) > 0
DistGroupID(key) ==
    IF Len(Legacy(key).Dist) = 0 THEN ""
    ELSE Legacy(key).Dist[1].Publish.GroupID
C27_ProductPublishCarried ==
    (Done /\ Returned) =>
        \A key \in Keys :
            /\ (HasProductGroupID(key) /\ DistGroupID(key) = "") =>
                   /\ Migrated(key).Publish # Nil
                   /\ Migrated(key).Publish[1].GroupID
                          = Ptr(ProductPublish(key).GroupID)
            /\ HasProductAlmanac(key) =>
                   /\ Migrated(key).Publish # Nil
                   /\ Migrated(key).Publish[1].PublishInfo # Nil

----------------------------------------------------------------------------
(* C28 *)

\* the type of the one dist the loop migrates for the product: that of its only
\* entry, or os-arch-bin for the default dist of a product with OS/Archs, a build
\* and no entry
MigratedDistType(key) ==
    LET lp == Legacy(key)
    IN  IF Len(lp.Dist) = 1 THEN lp.Dist[1].DistType.Type
        ELSE IF Len(lp.Dist) = 0 /\ ~ lp.Build.Skip /\ Len(lp.Build.OSArchs) > 0
        THEN OSArchBinDistType
        ELSE ""
\* the calls made on the dister registry and its upgraders for the product
DisterCalls(key) ==
    { n \in 1..Len(calls) : calls[n].category = "dister" /\ calls[n].product = key }
NoDisterUpgraderError(key) == Err("no upgrader found", key, "dister")

\* C28: a dist of type bin never consults the dister registry: no upgrader is
\* looked up or invoked for its product, the migrated bin dister has no config,
\* and the migration does not stop on a missing upgrader at that product. For
\* sls, os-arch-bin (the default dist included), manual and rpm a registry
\* without an upgrader for the type stops the migration: nothing is returned, the
\* loop never gets past the product, and the error it stops with at the product,
\* when the product has no build script, is the missing upgrader.
C28_BinBypassesRegistry ==
    (Done /\ Decoded) =>
        \A key \in Keys :
            /\ MigratedDistType(key) = BinDistType =>
                   /\ DisterCalls(key) = {}
                   /\ result # NoDisterUpgraderError(key)
                   /\ Returned =>
                          Migrated(key).Dist[1].Disters[1][bin_TypeName].Config = Nil
            /\ ( /\ MigratedDistType(key) \in DelegatedDistTypes
                 /\ MigratedDistType(key) \notin DOMAIN factories.dister ) =>
                   /\ NothingReturned
                   /\ idx <= Pos(key)
                   /\ (idx = Pos(key) /\ Legacy(key).Build.Script = "") =>
                          result = NoDisterUpgraderError(key)

\* with a registry that has no upgrader at all, the bin dist of product a was
\* migrated without a call and the migration stopped at the manual dist of
\* product b on the lookup of its upgrader
C28_Witness ==
    /\ Done /\ Decoded
    /\ DOMAIN factories.dister = {}
    /\ Keys = {"a", "b"}
    /\ MigratedDistType("a") = BinDistType
    /\ MigratedDistType("b") = ManualDistType
    /\ idx = Pos("b")
    /\ result = NoDisterUpgraderError("b")
    /\ calls = <<Lookup("dister", ManualDistType, "b")>>

\* with a registry that lacks only the bin upgrader, two products with a bin
\* dist were migrated
C28_BinMigrated ==
    /\ Done /\ Returned
    /\ BinDistType \notin DOMAIN factories.dister
    /\ \A key \in Keys : MigratedDistType(key) = BinDistType
    /\ Keys = {"a", "b"}

----------------------------------------------------------------------------
(* C29 *)

\* the place of a plugin category in the migration of one product
CategoryRank(category) ==
    CASE category = "dister" -> 1
      [] category = "publisher" -> 2
      [] category = "dockerbuilder" -> 3
\* the place of a call in the fixed sequence: its product first, then its category
CallRank(call) == 4 * Rank(call.product) + CategoryRank(call.category)
\* the calls of a category made for the product, as indexes into calls
CallsOf(key, category) ==
    { n \in 1..Len(calls) : calls[n].product = key /\ calls[n].category = category }
\* the payloads handed to docker-builder upgraders for the product, in call order
DockerUpgradeBytes(key) ==
    LET made == SelectSeq(calls, LAMBDA c : /\ c.op = "UpgradeConfig"
                                            /\ c.category = "dockerbuilder"
                                            /\ c.product = key)
    IN  [n \in 1..Len(made) |-> made[n].bytes[1]]
\* an image with a dependency of a type the migration rejects
HasBadDep(image) == \E d \in Elements(image.Deps) : d.Type \notin {"docker"} \cup {"bin", "sls"}
\* the payloads of the sls images of the product in image-index order, up to the
\* first image the migration rejects
SLSImagePayloads(key) ==
    LET images == Legacy(key).DockerImages
        reached == { n \in 1..Len(images) : \A m \in 1..n : ~ HasBadDep(images[m]) }
        sls == SelectSeq([n \in 1..Cardinality(reached) |-> images[n]],
                         LAMBDA image : image.Info.Type = "sls")
    IN  [n \in 1..Len(sls) |-> Marshal(WithLegacy(sls[n].Info.Data))]
IsPrefixOf(s, t) == Len(s) <= Len(t) /\ s = SubSeq(t, 1, Len(s))
\* the errors that are not the failure of a call and come before any call for
\* the product
ErrorsBeforeCalls ==
    { "build scripts are no longer supported", "more than 1 dist configuration",
      "unsupported dist type", "custom init.sh template file is no longer supported",
      "nil pointer dereference" }

\* C29: the upgraders are called in a fixed sequence. The calls are ordered by
\* product in ascending identifier order and, within a product, dister, then
\* publisher, then docker builder; a lookup is followed at once by the call of
\* the upgrader it returned, and each product has at most one dister and one
\* publisher upgrade; the docker-builder payloads of a product follow the index
\* order of its images (all of them when the configuration is returned). After
\* a call that failed no call is made; after an error no call is made for a later
\* product, and an error raised before the dister step leaves the product
\* without any call.
C29_FixedCallSequence ==
    Decoded =>
        /\ \A m, n \in 1..Len(calls) : m < n => CallRank(calls[m]) <= CallRank(calls[n])
        /\ \A n \in 1..Len(calls) :
              /\ calls[n].op = "UpgradeConfig" =>
                     /\ n > 1
                     /\ calls[n - 1] = Lookup(calls[n].category, calls[n].type,
                                              calls[n].product)
              /\ (calls[n].op = "ConfigUpgrader" /\ ~ FailedCall(calls[n])) =>
                     (pc # "done" \/ n < Len(calls))
              /\ FailedCall(calls[n]) => n = Len(calls)
        /\ \A key \in Keys :
              /\ Cardinality(CallsOf(key, "dister")) <= 2
              /\ Cardinality(CallsOf(key, "publisher")) <= 2
              /\ IsPrefixOf(DockerUpgradeBytes(key), SLSImagePayloads(key))
              /\ (Done /\ Returned) => DockerUpgradeBytes(key) = SLSImagePayloads(key)
        /\ (Done /\ NothingReturned) =>
              /\ \A n \in 1..Len(calls) : Rank(calls[n].product) <= Rank(result.product)
              /\ result.reason \in ErrorsBeforeCalls =>
                     \A n \in 1..Len(calls) : calls[n].product # result.product

\* both products have an sls dist with Almanac tags and two sls images, and the
\* docker builder's upgrader fails: product a was stopped at its first image after
\* the dister and the publisher were called, and no call was made for product b
C29_Witness ==
    /\ Done /\ Decoded /\ NothingReturned
    /\ Keys = {"a", "b"}
    /\ Len(Legacy("a").DockerImages) = 2
    /\ factories.dockerBuilder["sls"] = "error"
    /\ result.product = "a" /\ result.detail = "dockerbuilder"
    /\ Len(calls) = 6
    /\ [n \in 1..6 |-> calls[n].category]
           = <<"dister", "dister", "publisher", "publisher", "dockerbuilder",
               "dockerbuilder">>
    /\ DockerUpgradeBytes("a") = SubSeq(SLSImagePayloads("a"), 1, 1)
    /\ \A n \in 1..Len(calls) : calls[n].product = "a"

\* a returned migration of two products in which every kind of upgrader was
\* called for both, sixteen calls in the fixed sequence
C29_AllCalled ==
    /\ Done /\ Returned
    /\ Keys = {"a", "b"}
    /\ \A key \in Keys : Len(DockerUpgradeBytes(key)) = 2
    /\ Len(calls) = 16
    /\ SLSImagePayloads("a")[1] # SLSImagePayloads("a")[2]

====
